---------------------------- MODULE Spec2Model ----------------------------
(***************************************************************************)
(* Model of names-search-be: the cursor codec (utils/cursor.ts), the       *)
(* search orchestrator with its two read paths (services/names.service.ts, *)
(* repositories/names.repo.ts) and the transactional bulk publish          *)
(* pipeline (bulkPublish, withTransaction, ensureName, upsertVariants,     *)
(* upsertMeanings).                                                        *)
(*                                                                         *)
(* Text is a sequence of one-character strings.  An optional value is a    *)
(* sequence of length 0 (none / null / undefined) or 1 (the value).        *)
(***************************************************************************)
EXTENDS Integers, Sequences, FiniteSets, TLC

None == <<>>
Some(x) == <<x>>

\* JavaScript `x || y` on text: the empty string is falsy.
OrText(x, y) == IF x # <<>> THEN x ELSE y

RECURSIVE SeqToSet(_)
SeqToSet(s) == IF s = <<>> THEN {} ELSE {Head(s)} \cup SeqToSet(Tail(s))

RECURSIVE Concat(_)
\* flattens a sequence of sequences (Array.prototype.flatMap, string joins)
Concat(ss) == IF ss = <<>> THEN <<>> ELSE Head(ss) \o Concat(Tail(ss))

(***************************************************************************)
(* Characters.  Only the characters below occur in the checked inputs;     *)
(* every other byte decodes to "?", which no numeric literal contains.     *)
(***************************************************************************)
DigitChars == <<"0", "1", "2", "3", "4", "5", "6", "7", "8", "9">>

IsDigit(c) == \E i \in 1..10 : DigitChars[i] = c

DigitVal(c) == (CHOOSE i \in 1..10 : DigitChars[i] = c) - 1

\* UTF-8 (ASCII) code of a character: Buffer.from(text, 'utf8')
AsciiCode(c) ==
  CASE IsDigit(c) -> 48 + DigitVal(c)
    [] c = " " -> 32
    [] c = "+" -> 43
    [] c = "-" -> 45
    [] c = "." -> 46
    [] c = "a" -> 97
    [] OTHER -> 63

\* buf.toString('utf8') on one byte; bytes 9..13 and 32 are StrWhiteSpace
AsciiChar(b) ==
  CASE b \in 48..57 -> DigitChars[b - 47]
    [] b = 32 \/ b \in 9..13 -> " "
    [] b = 43 -> "+"
    [] b = 45 -> "-"
    [] b = 46 -> "."
    [] b = 97 -> "a"
    [] OTHER -> "?"

Utf8Bytes(text) == [i \in 1..Len(text) |-> AsciiCode(text[i])]

Utf8Text(bytes) == [i \in 1..Len(bytes) |-> AsciiChar(bytes[i])]

(***************************************************************************)
(* Base64 as Buffer implements it.                                         *)
(***************************************************************************)
B64Chars ==
  <<"A", "B", "C", "D", "E", "F", "G", "H", "I", "J", "K", "L", "M",
    "N", "O", "P", "Q", "R", "S", "T", "U", "V", "W", "X", "Y", "Z",
    "a", "b", "c", "d", "e", "f", "g", "h", "i", "j", "k", "l", "m",
    "n", "o", "p", "q", "r", "s", "t", "u", "v", "w", "x", "y", "z",
    "0", "1", "2", "3", "4", "5", "6", "7", "8", "9", "+", "/">>

RECURSIVE Base64Encode(_)
\* buf.toString('base64'): 3 bytes -> 4 characters, "=" padding
Base64Encode(bytes) ==
  IF bytes = <<>> THEN <<>>
  ELSE LET b1 == bytes[1]
           b2 == IF Len(bytes) >= 2 THEN bytes[2] ELSE 0
           b3 == IF Len(bytes) >= 3 THEN bytes[3] ELSE 0
           c1 == B64Chars[(b1 \div 4) + 1]
           c2 == B64Chars[((b1 % 4) * 16 + (b2 \div 16)) + 1]
           c3 == B64Chars[((b2 % 16) * 4 + (b3 \div 64)) + 1]
           c4 == B64Chars[(b3 % 64) + 1]
       IN  IF Len(bytes) = 1 THEN <<c1, c2, "=", "=">>
           ELSE IF Len(bytes) = 2 THEN <<c1, c2, c3, "=">>
           ELSE <<c1, c2, c3, c4>> \o Base64Encode(SubSeq(bytes, 4, Len(bytes)))

\* the sextet a character stands for, 64 for a character outside the alphabet
\* (the decoder also takes the URL-safe "-" and "_")
Unbase64(c) ==
  IF \E i \in 1..64 : B64Chars[i] = c
    THEN (CHOOSE i \in 1..64 : B64Chars[i] = c) - 1
    ELSE IF c = "-" THEN 62 ELSE IF c = "_" THEN 63 ELSE 64

RECURSIVE Sextets(_)
\* the decoder skips characters outside the alphabet and stops at "="
Sextets(tok) ==
  IF tok = <<>> \/ Head(tok) = "=" THEN <<>>
  ELSE IF Unbase64(Head(tok)) < 64
         THEN <<Unbase64(Head(tok))>> \o Sextets(Tail(tok))
         ELSE Sextets(Tail(tok))

RECURSIVE SextetsToBytes(_)
SextetsToBytes(s) ==
  IF Len(s) < 2 THEN <<>>
  ELSE LET y1 == s[1] * 4 + (s[2] \div 16)
       IN  IF Len(s) = 2 THEN <<y1>>
           ELSE LET y2 == (s[2] % 16) * 16 + (s[3] \div 4)
                IN  IF Len(s) = 3 THEN <<y1, y2>>
                    ELSE <<y1, y2, (s[3] % 4) * 64 + s[4]>>
                           \o SextetsToBytes(SubSeq(s, 5, Len(s)))

\* Buffer.from(tok, 'base64')
Base64Decode(tok) == SextetsToBytes(Sextets(tok))

(***************************************************************************)
(* JavaScript numbers, as far as the codec needs them: NaN, or the decimal *)
(* num / 10^scale with no trailing zero in the fraction.                   *)
(***************************************************************************)
NaN == [nan |-> TRUE, num |-> 0, scale |-> 0]

RECURSIVE Reduce(_, _)
Reduce(m, s) ==
  IF s > 0 /\ m % 10 = 0 THEN Reduce(m \div 10, s - 1)
  ELSE [nan |-> FALSE, num |-> m, scale |-> s]

IntNum(n) == [nan |-> FALSE, num |-> n, scale |-> 0]

IsInteger(x) == ~x.nan /\ x.scale = 0

RECURSIVE DigitsValue(_)
DigitsValue(ds) ==
  IF ds = <<>> THEN 0 ELSE DigitsValue(SubSeq(ds, 1, Len(ds) - 1)) * 10 + DigitVal(ds[Len(ds)])

RECURSIVE NatDigits(_)
NatDigits(n) ==
  IF n < 10 THEN <<DigitChars[n + 1]>> ELSE NatDigits(n \div 10) \o <<DigitChars[(n % 10) + 1]>>

\* String(n) for an integer n (below 1e21, where the notation is plain decimal)
StringOfInt(n) == IF n < 0 THEN <<"-">> \o NatDigits(0 - n) ELSE NatDigits(n)

RECURSIVE TrimStart(_)
TrimStart(t) == IF t # <<>> /\ Head(t) = " " THEN TrimStart(Tail(t)) ELSE t

RECURSIVE TrimEnd(_)
TrimEnd(t) == IF t # <<>> /\ t[Len(t)] = " " THEN TrimEnd(SubSeq(t, 1, Len(t) - 1)) ELSE t

Trim(t) == TrimEnd(TrimStart(t))

AllDigits(t) == \A i \in 1..Len(t) : IsDigit(t[i])

\* StrUnsignedDecimalLiteral without exponent: D+ | D+ . D* | . D+
UnsignedDecimal(t) ==
  IF t = <<>> THEN NaN
  ELSE IF AllDigits(t) THEN IntNum(DigitsValue(t))
  ELSE IF \E i \in 1..Len(t) : t[i] = "."
    THEN LET i == CHOOSE j \in 1..Len(t) : t[j] = "."
             ip == SubSeq(t, 1, i - 1)
             fp == SubSeq(t, i + 1, Len(t))
         IN  IF AllDigits(ip) /\ AllDigits(fp) /\ ip \o fp # <<>>
               THEN Reduce(DigitsValue(ip \o fp), Len(fp))
               ELSE NaN
    ELSE NaN

\* Number(text): white space trimmed, "" is 0, optional sign, decimal literal
ToNumber(text) ==
  LET t == Trim(text)
  IN  IF t = <<>> THEN IntNum(0)
      ELSE IF Head(t) = "-"
        THEN LET u == UnsignedDecimal(Tail(t))
             IN  IF u.nan THEN NaN ELSE [u EXCEPT !.num = 0 - u.num]
      ELSE IF Head(t) = "+" THEN UnsignedDecimal(Tail(t))
      ELSE UnsignedDecimal(t)

(***************************************************************************)
(* utils/cursor.ts                                                         *)
(***************************************************************************)
encodeCursor(nameId) == Base64Encode(Utf8Bytes(StringOfInt(nameId)))

\* decodeCursor with the test `n > 1` for `n > 0`
decodeCursor_AboveOne(c) ==
  IF c = None \/ c[1] = <<>> THEN None
  ELSE LET n == ToNumber(Utf8Text(Base64Decode(c[1])))
       IN  IF ~n.nan /\ n.num > 1 THEN Some(n) ELSE None

\* decodeCursor with the test `n >= 0` for `n > 0`
decodeCursor_ZeroAllowed(c) ==
  IF c = None \/ c[1] = <<>> THEN None
  ELSE LET n == ToNumber(Utf8Text(Base64Decode(c[1])))
       IN  IF ~n.nan /\ n.num >= 0 THEN Some(n) ELSE None

\* c is an optional token; the result is an optional number
decodeCursor(c) ==
  IF c = None \/ c[1] = <<>> THEN None
  ELSE LET n == ToNumber(Utf8Text(Base64Decode(c[1])))
       IN  IF ~n.nan /\ n.num > 0 THEN Some(n) ELSE None

(***************************************************************************)
(* Text comparison as the storage engine does it.                          *)
(***************************************************************************)
TextChars == <<"%", "-", "M", "_", "a", "b", "m", "o", "r", "x", "y", "z">>

\* code-point order of the characters that occur in stored text
CharRank(c) ==
  IF \E i \in 1..Len(TextChars) : TextChars[i] = c
    THEN CHOOSE i \in 1..Len(TextChars) : TextChars[i] = c
    ELSE 0

RECURSIVE TextLess(_, _)
TextLess(a, b) ==
  IF b = <<>> THEN FALSE
  ELSE IF a = <<>> THEN TRUE
  ELSE IF Head(a) = Head(b) THEN TextLess(Tail(a), Tail(b))
  ELSE CharRank(Head(a)) < CharRank(Head(b))

RECURSIVE SortTexts(_)
\* ORDER BY on a set of distinct texts
SortTexts(S) ==
  IF S = {} THEN <<>>
  ELSE LET m == CHOOSE x \in S : \A y \in S \ {x} : TextLess(x, y)
       IN  <<m>> \o SortTexts(S \ {m})

RECURSIVE SortInts(_)
\* ORDER BY on a set of integers
SortInts(S) ==
  IF S = {} THEN <<>>
  ELSE LET m == CHOOSE x \in S : \A y \in S : x <= y
       IN  <<m>> \o SortInts(S \ {m})

\* LIMIT n OFFSET k on an ordered result
LimitOffset(rows, n, k) == SubSeq(rows, k + 1, IF k + n < Len(rows) THEN k + n ELSE Len(rows))

LowerChar(c) == IF c = "M" THEN "m" ELSE c

\* String.prototype.toLowerCase and the case folding of ILIKE
ToLower(t) == [i \in 1..Len(t) |-> LowerChar(t[i])]

RECURSIVE LikeMatch(_, _)
\* LIKE: "%" matches any run of characters, "_" any one character
LikeMatch(p, s) ==
  IF p = <<>> THEN s = <<>>
  ELSE IF Head(p) = "%"
    THEN LikeMatch(Tail(p), s) \/ (s # <<>> /\ LikeMatch(p, Tail(s)))
  ELSE IF Head(p) = "_"
    THEN s # <<>> /\ LikeMatch(Tail(p), Tail(s))
  ELSE s # <<>> /\ Head(s) = Head(p) /\ LikeMatch(Tail(p), Tail(s))

ILike(s, p) == LikeMatch(ToLower(p), ToLower(s))

like(text) == <<"%">> \o text \o <<"%">>

(***************************************************************************)
(* State.                                                                  *)
(*   languages, names, variants, meanings : the committed tables           *)
(*   mv       : the rows of name_search_mv (maintained outside the core)   *)
(*   nameSeq  : the id sequence of names (not transactional)               *)
(*   useMv    : Env.USE_MV                                                 *)
(*   now      : Date.now()                                                 *)
(*   codec    : the last cursor codec call                                 *)
(*   search   : the last searchNames call (request, response, and the      *)
(*              name_id of each returned row and the queries issued)       *)
(*   chain    : the pages of the current nextCursor-chained sequence       *)
(*   pub      : the bulkPublish call in progress or last finished          *)
(*   tx       : the open transaction's view of the tables                  *)
(*   race     : two bulkPublish calls that run concurrently, each with the *)
(*              rows its open transaction has written and not committed    *)
(*   langCache: the module state of services/language.service.ts (cache,   *)
(*              cacheExp, TTL_MS) and the getLangMap call in progress      *)
(*   http     : the POST /names/bulk request being handled or last handled *)
(***************************************************************************)
VARIABLES languages, names, variants, meanings, mv, nameSeq, useMv, now,
          codec, search, chain, pub, tx, race, langCache, http, readers, pool

vars == <<languages, names, variants, meanings, mv, nameSeq, useMv, now,
          codec, search, chain, pub, tx, race, langCache, http, readers, pool>>

storageVars == <<languages, names, variants, meanings, mv, nameSeq>>

LangCodes == {"en", "ta", "fr"}

(***************************************************************************)
(* repositories/language.repo.ts                                           *)
(***************************************************************************)
\* the id stored for a code, 0 (falsy) when the row is absent
LangIdOf(code) ==
  IF \E r \in languages : r.code = code
    THEN (CHOOSE r \in languages : r.code = code).id
    ELSE 0

loadLanguageMap ==
  LET map == [c \in LangCodes |-> LangIdOf(c)]
  IN  IF map["en"] = 0 \/ map["ta"] = 0 \/ map["fr"] = 0
        THEN [ok |-> FALSE, map |-> map]
        ELSE [ok |-> TRUE, map |-> map]

(***************************************************************************)
(* repositories/names.repo.ts: the normalized read path                    *)
(***************************************************************************)
\* SELECT DISTINCT nv.name_id ... WHERE language_id = $1 AND variant_name ILIKE $2
MatchesNormalized(languageId, searchText) ==
  {v.name_id : v \in {w \in variants : /\ w.language_id = languageId
                                        /\ ILike(w.variant_name, like(searchText))}}

countMatchesNormalized(languageId, searchText) ==
  Cardinality(MatchesNormalized(languageId, searchText))

\* a page that starts at the cursor id
pageIdsNormalized_Inclusive(languageId, searchText, cursorId, limit) ==
  LET matches == {id \in MatchesNormalized(languageId, searchText) :
                    cursorId = None \/ id >= cursorId[1]}
  IN  LimitOffset(SortInts(matches), limit, 0)

\* cursorId is an optional integer
pageIdsNormalized(languageId, searchText, cursorId, limit) ==
  LET matches == {id \in MatchesNormalized(languageId, searchText) :
                    cursorId = None \/ id > cursorId[1]}
  IN  LimitOffset(SortInts(matches), limit, 0)

deriveCursorIdNormalized(languageId, searchText, offset) ==
  LET skip == IF offset - 1 > 0 THEN offset - 1 ELSE 0
      r == LimitOffset(SortInts(MatchesNormalized(languageId, searchText)), 1, skip)
  IN  IF r = <<>> THEN None ELSE Some(r[1])

\* COALESCE(a, b) on nullable values
Coalesce_Second(a, b) == IF b # None THEN b ELSE a

Coalesce(a, b) == IF a # None THEN a ELSE b

\* the values a LEFT JOIN contributes: the matching ones, or one NULL
JoinedVariants(nameId, languageId) ==
  LET S == {v.variant_name : v \in {w \in variants : /\ w.name_id = nameId
                                                     /\ w.language_id = languageId}}
  IN  IF S = {} THEN {None} ELSE {Some(x) : x \in S}

JoinedMeanings(nameId, languageId) ==
  LET S == {m.meaning : m \in {w \in meanings : /\ w.name_id = nameId
                                                /\ w.language_id = languageId}}
  IN  IF S = {} THEN {None} ELSE {Some(x) : x \in S}

\* ARRAY_AGG(DISTINCT x ORDER BY x) over joined values: NULL sorts last
AggDistinct(J) ==
  [i \in 1..Cardinality(J \ {None}) |-> Some(SortTexts({x[1] : x \in J \ {None}})[i])]
    \o (IF None \in J THEN <<None>> ELSE <<>>)

\* the groups of one name: GROUP BY n.id, nm_req.meaning, nm_en.meaning
\* (nm_req and nm_en are two independent joins, also when $5 = $3)
GroupsOf(nameId, taId, enId, frId, reqLangId) ==
  {[name_id |-> nameId,
    tamil |-> AggDistinct(JoinedVariants(nameId, taId))[1],
    english |-> Some(AggDistinct(JoinedVariants(nameId, enId))),
    french |-> Some(AggDistinct(JoinedVariants(nameId, frId))),
    description |-> Coalesce(g[1], g[2])]
     : g \in JoinedMeanings(nameId, reqLangId) \X JoinedMeanings(nameId, enId)}

RECURSIVE Orderings(_)
\* every order the rows of a set can come back in
Orderings(S) ==
  IF S = {} THEN {<<>>}
  ELSE UNION {{<<x>> \o t : t \in Orderings(S \ {x})} : x \in S}

RECURSIVE AggregatedRows(_, _, _, _, _)
\* ORDER BY n.id: rows of one name come back in any order
AggregatedRows(idSeq, taId, enId, frId, reqLangId) ==
  IF idSeq = <<>> THEN {<<>>}
  ELSE {h \o t : h \in Orderings(GroupsOf(Head(idSeq), taId, enId, frId, reqLangId)),
                 t \in AggregatedRows(Tail(idSeq), taId, enId, frId, reqLangId)}

\* the set of results the query can return for the ids (a list of name ids)
fetchAggregatedByIds(ids, taId, enId, frId, reqLangId) ==
  AggregatedRows(SortInts({n.id : n \in {m \in names : m.id \in SeqToSet(ids)}}),
                 taId, enId, frId, reqLangId)

(***************************************************************************)
(* repositories/names.repo.ts: the denormalized read path                  *)
(***************************************************************************)
MatchesMV(searchTextLower) ==
  {r.name_id : r \in {w \in mv : ILike(w.search_blob, like(searchTextLower))}}

countMatchesMV(searchTextLower) ==
  Cardinality({w \in mv : ILike(w.search_blob, like(searchTextLower))})

MvById(id) == CHOOSE r \in mv : r.name_id = id

pageDataMV(langCode, searchTextLower, cursorId, limit) ==
  LET ids == {id \in MatchesMV(searchTextLower) : cursorId = None \/ id > cursorId[1]}
      page == LimitOffset(SortInts(ids), limit, 0)
  IN  [i \in 1..Len(page) |->
         LET r == MvById(page[i])
         IN  [name_id |-> r.name_id, tamil |-> r.tamil, english |-> r.english,
              french |-> r.french,
              description |-> Coalesce(r.meaning_by_lang[langCode],
                                                       r.meaning_by_lang["en"])]]

deriveCursorIdMV(searchTextLower, offset) ==
  LET skip == IF offset - 1 > 0 THEN offset - 1 ELSE 0
      r == LimitOffset(SortInts(MatchesMV(searchTextLower)), 1, skip)
  IN  IF r = <<>> THEN None ELSE Some(r[1])

(***************************************************************************)
(* services/names.service.ts: searchNames                                  *)
(***************************************************************************)
\* the test without `!cursorId`
NeedsDerivedCursor_PageOnly(cursorId, page) == page > 1

\* `!cursorId && page > 1`
NeedsDerivedCursor(cursorId, page) == cursorId = None /\ page > 1

\* A value of a response row is None (null) or Some(v); a list is a sequence
\* of such values.

\* filter(Boolean) left out
FilterBoolean_Keep(arr) == arr

\* Array.prototype.filter(Boolean) on a list of nullable texts
FilterBoolean(arr) == SelectSeq(arr, LAMBDA x : x # None /\ x # Some(<<>>))

\* `x || ''` on a nullable text
OrEmpty(x) == IF x = None \/ x = Some(<<>>) THEN Some(<<>>) ELSE x

\* `x || []` on a nullable list
OrEmptyList(x) == IF x = None THEN Some(<<>>) ELSE x

\* rows.map(...) of the MV path
ShapeMV(r) ==
  [tamil |-> OrEmpty(r.tamil),
   english |-> OrEmptyList(r.english),
   french |-> OrEmptyList(r.french),
   description |-> OrEmpty(r.description)]

\* rows.map(...) of the normalized path
ShapeNormalized(r) ==
  [tamil |-> OrEmpty(r.tamil),
   english |-> Some(FilterBoolean(OrEmptyList(r.english)[1])),
   french |-> Some(FilterBoolean(OrEmptyList(r.french)[1])),
   description |-> OrEmpty(r.description)]

\* the cursor taken from the first row of the page
NextCursorMV_First(rows) ==
  IF Len(rows) > 0 THEN Some(encodeCursor(rows[1].name_id)) ELSE None

\* rows.length ? encodeCursor(rows[rows.length - 1].name_id) : null
NextCursorMV(rows) ==
  IF Len(rows) > 0 THEN Some(encodeCursor(rows[Len(rows)].name_id)) ELSE None

\* the cursor taken from the first id of the page
NextCursorNormalized_First(ids) == Some(encodeCursor(ids[1]))

\* encodeCursor(ids[ids.length - 1]), reached only when ids is not empty
NextCursorNormalized(ids) == Some(encodeCursor(ids[Len(ids)]))

\* a search that goes on to the page query although nothing matches
NoMatches_Never(totalCount) == FALSE

\* `totalCount === 0`
NoMatches(totalCount) == totalCount = 0

EmptyResponse(totalCount) == [getNames |-> <<>>, totalCount |-> totalCount, nextCursor |-> None]

Outcome(error, resp, ids, queries) ==
  [error |-> error, resp |-> resp, ids |-> ids, queries |-> queries,
   cursorId |-> None, page |-> <<>>]

\* an outcome of the normalized path past its page query: also the cursor id
\* the query was given and the ids it returned
Paged(out, cursorId, ids) == [out EXCEPT !.cursorId = cursorId, !.page = ids]

\* The set of outcomes of one call: the response, with the name_id of every
\* returned row and the queries issued, in order.  The cursor tokens of the
\* requests decode to an integer or to no cursor.
searchNamesWith(lm, input) ==
  LET decoded == decodeCursor(input.cursor)
      limit == input.pagePerRecord
      derive == NeedsDerivedCursor(decoded, input.page)
      offset == (input.page - 1) * limit
      langId == lm.map[input.lang]
      lower == ToLower(input.searchText)
      cursorId ==
        IF derive
          THEN IF useMv THEN deriveCursorIdMV(lower, offset)
                        ELSE deriveCursorIdNormalized(langId, input.searchText, offset)
          ELSE IF decoded = None THEN None ELSE Some(decoded[1].num)
      q0 == IF derive
              THEN IF useMv THEN <<"deriveCursorIdMV">> ELSE <<"deriveCursorIdNormalized">>
              ELSE <<>>
  IN  IF ~lm.ok THEN {Outcome(TRUE, EmptyResponse(0), <<>>, <<"loadLanguageMap">>)}
      ELSE IF useMv
        THEN LET totalCount == countMatchesMV(lower)
                 rows == pageDataMV(input.lang, lower, cursorId, limit)
             IN  IF NoMatches(totalCount)
                   THEN {Outcome(FALSE, EmptyResponse(totalCount), <<>>,
                                 q0 \o <<"countMatchesMV">>)}
                   ELSE {Outcome(FALSE,
                                 [getNames |-> [i \in 1..Len(rows) |-> ShapeMV(rows[i])],
                                  totalCount |-> totalCount,
                                  nextCursor |-> NextCursorMV(rows)],
                                 [i \in 1..Len(rows) |-> rows[i].name_id],
                                 q0 \o <<"countMatchesMV", "pageDataMV">>)}
        ELSE LET totalCount == countMatchesNormalized(langId, input.searchText)
                 ids == pageIdsNormalized(langId, input.searchText, cursorId, limit)
             IN  IF NoMatches(totalCount)
                   THEN {Outcome(FALSE, EmptyResponse(totalCount), <<>>,
                                 q0 \o <<"countMatchesNormalized">>)}
                 ELSE IF Len(ids) = 0
                   THEN {Paged(Outcome(FALSE, EmptyResponse(totalCount), <<>>,
                                       q0 \o <<"countMatchesNormalized", "pageIdsNormalized">>),
                               cursorId, ids)}
                 ELSE {Paged(Outcome(FALSE,
                               [getNames |-> [i \in 1..Len(rows) |-> ShapeNormalized(rows[i])],
                                totalCount |-> totalCount,
                                nextCursor |-> NextCursorNormalized(ids)],
                               [i \in 1..Len(rows) |-> rows[i].name_id],
                               q0 \o <<"countMatchesNormalized", "pageIdsNormalized",
                                       "fetchAggregatedByIds">>), cursorId, ids)
                        : rows \in fetchAggregatedByIds(ids, lm.map["ta"], lm.map["en"],
                                                        lm.map["fr"], langId)}

\* with the mapping read from the languages table as it is
searchNames(input) == searchNamesWith(loadLanguageMap, input)

(***************************************************************************)
(* services/names.service.ts: makeCanonicalKey                             *)
(***************************************************************************)
KeyMaxLen == 100

\* \p{Letter} or \p{Number}, among the characters that occur in values
\* (NFKD leaves every one of them as it is)
IsLetterOrNumber(c) == c \in {"M", "a", "b", "m", "o", "r", "x", "y", "z"} \/ IsDigit(c)

RECURSIVE ReplaceRuns(_, _)
\* .replace(/[^\p{Letter}\p{Number}]+/gu, "_"); inRun: the previous character
\* belonged to the run being replaced
ReplaceRuns(t, inRun) ==
  IF t = <<>> THEN <<>>
  ELSE IF IsLetterOrNumber(Head(t)) THEN <<Head(t)>> \o ReplaceRuns(Tail(t), FALSE)
  ELSE IF inRun THEN ReplaceRuns(Tail(t), TRUE)
  ELSE <<"_">> \o ReplaceRuns(Tail(t), TRUE)

RECURSIVE TrimUnderscores(_)
\* .replace(/^_+|_+$/g, "")
TrimUnderscores(t) ==
  IF t # <<>> /\ Head(t) = "_" THEN TrimUnderscores(Tail(t))
  ELSE IF t # <<>> /\ t[Len(t)] = "_" THEN TrimUnderscores(SubSeq(t, 1, Len(t) - 1))
  ELSE t

RECURSIVE CollapseUnderscores(_)
\* .replace(/_{2,}/g, "_")
CollapseUnderscores(t) ==
  IF Len(t) < 2 THEN t
  ELSE IF t[1] = "_" /\ t[2] = "_" THEN CollapseUnderscores(Tail(t))
  ELSE <<Head(t)>> \o CollapseUnderscores(Tail(t))

Slice(t, n) == SubSeq(t, 1, IF Len(t) < n THEN Len(t) ELSE n)

\* the first variant, whatever its locale
PickVariant_First(row) == row.variants[1]

\* row.variants.find(v => v.lang === "en") ?? row.variants[0]
PickVariant(row) ==
  IF \E i \in 1..Len(row.variants) : row.variants[i].lang = "en"
    THEN row.variants[CHOOSE i \in 1..Len(row.variants) :
                        /\ row.variants[i].lang = "en"
                        /\ \A j \in 1..(i - 1) : row.variants[j].lang # "en"]
    ELSE row.variants[1]

\* lines 112-118 on the value picked
KeyOfValue(value) ==
  Slice(CollapseUnderscores(TrimUnderscores(ReplaceRuns(ToLower(value), FALSE))), KeyMaxLen)

KeyBase(row) == KeyOfValue(PickVariant(row).value)

\* `name_${Date.now()}`
TimestampKey(t) == <<"n", "a", "m", "e", "_">> \o NatDigits(t)

makeCanonicalKey(row, t) == OrText(KeyBase(row), TimestampKey(t))

\* (r.canonicalKey && r.canonicalKey.trim()) || makeCanonicalKey(r)
CanonicalKeyOf(row, t) ==
  IF row.canonicalKey # None /\ Trim(row.canonicalKey[1]) # <<>>
    THEN Trim(row.canonicalKey[1])
    ELSE makeCanonicalKey(row, t)

(***************************************************************************)
(* services/language.service.ts: getLanguageIds                            *)
(***************************************************************************)
RowCodes(row) ==
  {row.variants[i].lang : i \in 1..Len(row.variants)}
    \cup {row.meanings[i].lang : i \in 1..Len(row.meanings)}

UniqueCodes(rows) == UNION {RowCodes(rows[i]) : i \in 1..Len(rows)}

getLanguageIdsOf(map, codes) == [c \in {d \in codes : map[d] # 0} |-> map[c]]

\* with the mapping read from the languages table as it is
getLanguageIds(codes) == getLanguageIdsOf(loadLanguageMap.map, codes)

(***************************************************************************)
(* repositories/names.repo.ts: the writes, on the transaction's view       *)
(***************************************************************************)
\* an insert that takes no notice of a name that has the key
ensureNameIn_AlwaysInsert(ns, canonicalKey, started) ==
  [id |-> nameSeq + 1,
   names |-> ns \cup {[id |-> nameSeq + 1, canonical_key |-> canonicalKey,
                        updated_at |-> started]}]

\* INSERT ... ON CONFLICT (canonical_key) DO UPDATE SET updated_at = now()
\* RETURNING id.  The id of a new row is the next value of the sequence,
\* which the statement draws whether or not the key exists.
ensureNameIn(ns, canonicalKey, started) ==
  IF \E n \in ns : n.canonical_key = canonicalKey
    THEN LET old == CHOOSE n \in ns : n.canonical_key = canonicalKey
         IN  [id |-> old.id,
              names |-> (ns \ {old}) \cup {[old EXCEPT !.updated_at = started]}]
    ELSE [id |-> nameSeq + 1,
          names |-> ns \cup {[id |-> nameSeq + 1, canonical_key |-> canonicalKey,
                               updated_at |-> started]}]

\* on the names the one open transaction sees
ensureName(canonicalKey) == ensureNameIn(tx.names, canonicalKey, tx.started)

EmptyUpsert == [insertedCount |-> 0, duplicateCount |-> 0, duplicates |-> <<>>]

\* an insert that takes no notice of the rows already there
Conflicts_Never(table, row, field) == FALSE

\* ON CONFLICT (name_id, language_id, <field>): a row with the triple exists
Conflicts(table, row, field) ==
  \E r \in table : /\ r.name_id = row.name_id
                   /\ r.language_id = row.language_id
                   /\ r[field] = row[field]

\* the largest row id of a table, 0 when it is empty
MaxId(table) ==
  IF table = {} THEN 0
  ELSE (CHOOSE r \in table : \A q \in table : q.id <= r.id).id

RECURSIVE InsertAll(_, _, _)
\* INSERT INTO ... SELECT ... FROM data ON CONFLICT (...) DO NOTHING: the rows
\* of data in turn, each one skipped when its triple is in the table (put
\* there before the statement or by a row earlier in data)
InsertAll(table, data, field) ==
  IF data = <<>> THEN table
  ELSE IF Conflicts(table, Head(data), field)
    THEN InsertAll(table, Tail(data), field)
    ELSE InsertAll(table \cup {[Head(data) EXCEPT !.id = MaxId(table) + 1]},
                   Tail(data), field)

upsertVariantsIn(rows, nameId, items) ==
  IF Len(items) = 0 THEN [result |-> EmptyUpsert, table |-> rows]
  ELSE LET data == [i \in 1..Len(items) |->
                      [id |-> 0, name_id |-> nameId, language_id |-> items[i].language_id,
                       variant_name |-> items[i].value]]
           table == InsertAll(rows, data, "variant_name")
           insertedCount == Cardinality(table) - Cardinality(rows)
           existed == {r \in table :
                         /\ r.name_id = nameId
                         /\ \E i \in 1..Len(items) : /\ items[i].language_id = r.language_id
                                                     /\ items[i].value = r.variant_name}
           existedSet == {<<r.language_id, r.variant_name>> : r \in existed}
       IN  [result |-> [insertedCount |-> insertedCount,
                        duplicateCount |-> Len(items) - insertedCount,
                        duplicates |-> SelectSeq(items,
                                         LAMBDA i : <<i.language_id, i.value>> \in existedSet)],
            table |-> table]

\* on the committed variants, as a statement sent to the pool
upsertVariants_OnPool(nameId, items) == upsertVariantsIn(variants, nameId, items)

\* on the variants the one open transaction sees
upsertVariants(nameId, items) == upsertVariantsIn(tx.variants, nameId, items)

upsertMeaningsIn(rows, nameId, items) ==
  IF Len(items) = 0 THEN [result |-> EmptyUpsert, table |-> rows]
  ELSE LET data == [i \in 1..Len(items) |->
                      [id |-> 0, name_id |-> nameId, language_id |-> items[i].language_id,
                       meaning |-> items[i].value]]
           table == InsertAll(rows, data, "meaning")
           insertedCount == Cardinality(table) - Cardinality(rows)
           existed == {r \in table :
                         /\ r.name_id = nameId
                         /\ \E i \in 1..Len(items) : /\ items[i].language_id = r.language_id
                                                     /\ items[i].value = r.meaning}
           existedSet == {<<r.language_id, r.meaning>> : r \in existed}
       IN  [result |-> [insertedCount |-> insertedCount,
                        duplicateCount |-> Len(items) - insertedCount,
                        duplicates |-> SelectSeq(items,
                                         LAMBDA i : <<i.language_id, i.value>> \in existedSet)],
            table |-> table]

\* on the meanings the one open transaction sees
upsertMeanings(nameId, items) == upsertMeaningsIn(tx.meanings, nameId, items)

(***************************************************************************)
(* services/names.service.ts: bulkPublish, one action per awaited step     *)
(***************************************************************************)
MaxCalls == 2
MaxClock == 1

SearchTexts == {<<"M", "a">>, <<"b">>, <<"_">>}

Totals(rows, n, vi, vd, mi, md) ==
  [rows |-> rows, namesEnsured |-> n, variantsInserted |-> vi, variantsDuplicates |-> vd,
   meaningsInserted |-> mi, meaningsDuplicates |-> md]

NewAggregate(rows, dryRun) ==
  [totals |-> Totals(Len(rows), 0, 0, 0, 0, 0), rows |-> <<>>, dryRun |-> dryRun]

Snapshot == [names |-> names, variants |-> variants, meanings |-> meanings]

NoTx == [open |-> FALSE, started |-> 0, names |-> {}, variants |-> {}, meanings |-> {}]

NoCall ==
  [valid |-> FALSE, rows |-> <<>>, dryRun |-> FALSE, pc |-> "idle", t0 |-> 0,
   aggregate |-> NewAggregate(<<>>, FALSE),
   pre |-> [names |-> {}, variants |-> {}, meanings |-> {}]]

IdlePub ==
  [pc |-> "idle", calls |-> 0, rows |-> <<>>, dryRun |-> FALSE, t0 |-> 0, i |-> 0,
   key |-> <<>>,
   nameId |-> 0, vRes |-> EmptyUpsert, aggregate |-> NewAggregate(<<>>, FALSE),
   langIdMap |-> << >>, pre |-> [names |-> {}, variants |-> {}, meanings |-> {}],
   preCounts |-> << >>, before |-> <<>>, last |-> NoCall, prev |-> NoCall]

\* r.variants.map(v => ({ language_id: langIdMap[v.lang], value: v.value }))
RepoItems(list, langIdMap) ==
  [i \in 1..Len(list) |-> [language_id |-> langIdMap[list[i].lang], value |-> list[i].value]]

\* duplicates.map(d => ({ language: code with langIdMap[code] === d.language_id, value }))
DupDetails(dups, langIdMap) ==
  [i \in 1..Len(dups) |->
     [language |-> CHOOSE code \in DOMAIN langIdMap : langIdMap[code] = dups[i].language_id,
      value |-> dups[i].value]]

\* the (language_id, value) pairs a name has in a table of the transaction
PairsOfName(table, nameId, field) ==
  {<<r.language_id, r[field]>> : r \in {w \in table : w.name_id = nameId}}

\* totalCount of the searches, on either read path
MatchCounts ==
  [q \in SearchTexts \X LangCodes |->
     [normalized |-> countMatchesNormalized(LangIdOf(q[2]), q[1]),
      mv |-> countMatchesMV(ToLower(q[1]))]]

\* a rollback that does not undo the writes of the transaction
RolledBack_KeepsWrites ==
  IF tx.open THEN [names |-> tx.names, variants |-> tx.variants, meanings |-> tx.meanings]
  ELSE Snapshot

\* a rollback that undoes the variants and meanings but not the names
RolledBack_KeepsNames == IF tx.open THEN [Snapshot EXCEPT !.names = tx.names] ELSE Snapshot

\* what ROLLBACK leaves in the committed tables
RolledBack == Snapshot

\* what COMMIT leaves in the committed tables
\* a commit that leaves only the rows the transaction wrote
Committed_OnlyWritten ==
  [names |-> tx.names \ names, variants |-> tx.variants \ variants,
   meanings |-> tx.meanings \ meanings]

Committed == [names |-> tx.names, variants |-> tx.variants, meanings |-> tx.meanings]

\* a dry run that returns the summary as it was before the rows were processed
DryRunResult_Initial == NewAggregate(pub.rows, pub.dryRun)

\* `return err.result`: the aggregate the callback threw
DryRunResult == pub.aggregate

\* a dry run whose DryRunRollback is rethrown
DryRunOutcome_Thrown == "failed"

\* `if (err instanceof DryRunRollback) return err.result`: the call returns
DryRunOutcome == "done"

\* aggregate.rows.unshift(entry)
PushRow_Front(rows, entry) == <<entry>> \o rows

\* aggregate.rows.push(entry)
PushRow(rows, entry) == Append(rows, entry)

\* the record of the call that just ended, kept for the next call
Finished(pc, result) ==
  [valid |-> TRUE, rows |-> pub.rows, dryRun |-> pub.dryRun, pc |-> pc, t0 |-> pub.t0,
   aggregate |-> result, pre |-> pub.pre]

\* bulkPublish(rows, {dryRun}) up to the call of withTransaction
PublishCall(rows, dryRun) ==
  /\ pub.pc \in {"idle", "done", "failed"}
  /\ pub.calls < MaxCalls
  /\ loadLanguageMap.ok
  /\ pub' = [pub EXCEPT !.pc = "begin", !.calls = @ + 1, !.rows = rows, !.dryRun = dryRun,
                        !.t0 = now, !.i = 0, !.aggregate = NewAggregate(rows, dryRun),
                        !.langIdMap = getLanguageIds(UniqueCodes(rows)),
                        !.pre = Snapshot, !.preCounts = MatchCounts, !.before = <<>>,
                        !.prev = pub.last]
  /\ UNCHANGED <<pool, readers, http, langCache, race, storageVars, useMv, now, codec, search, chain, tx>>

\* pool.connect() and BEGIN
PublishOpen ==
  /\ pub.pc = "begin"
  /\ tx' = [open |-> TRUE, started |-> now, names |-> names, variants |-> variants,
            meanings |-> meanings]
  /\ pub' = [pub EXCEPT !.pc = "ensure"]
  /\ UNCHANGED <<pool, readers, http, langCache, race, storageVars, useMv, now, codec, search, chain>>

\* lines 165-170 for row i
PublishEnsureName ==
  /\ pub.pc = "ensure"
  /\ LET r == pub.rows[pub.i + 1]
         canonicalKey == CanonicalKeyOf(r, now)
         e == ensureName(canonicalKey)
     IN  /\ tx' = [tx EXCEPT !.names = e.names]
         /\ nameSeq' = nameSeq + 1
         /\ pub' = [pub EXCEPT !.pc = "variants", !.key = canonicalKey, !.nameId = e.id,
                               !.aggregate.totals.namesEnsured = @ + 1,
                               !.before = Append(@,
                                  [variants |-> PairsOfName(tx.variants, e.id, "variant_name"),
                                   meanings |-> PairsOfName(tx.meanings, e.id, "meaning")])]
  /\ UNCHANGED <<pool, readers, http, langCache, race, languages, names, variants, meanings, mv, useMv, now, codec, search, chain>>

\* line 184 for row i
PublishUpsertVariants ==
  /\ pub.pc = "variants"
  /\ LET r == pub.rows[pub.i + 1]
         u == upsertVariants(pub.nameId, RepoItems(r.variants, pub.langIdMap))
     IN  /\ tx' = [tx EXCEPT !.variants = u.table]
         /\ pub' = [pub EXCEPT !.pc = "meanings", !.vRes = u.result]
  /\ UNCHANGED <<pool, readers, http, langCache, race, storageVars, useMv, now, codec, search, chain>>

\* lines 185-211 for row i
PublishUpsertMeanings ==
  /\ pub.pc = "meanings"
  /\ LET r == pub.rows[pub.i + 1]
         u == upsertMeanings(pub.nameId, RepoItems(r.meanings, pub.langIdMap))
         vRes == pub.vRes
         mRes == u.result
         t == pub.aggregate.totals
     IN  /\ tx' = [tx EXCEPT !.meanings = u.table]
         /\ pub' = [pub EXCEPT
              !.pc = IF pub.i + 1 < Len(pub.rows) THEN "ensure" ELSE "finish",
              !.i = @ + 1,
              !.aggregate.totals =
                 Totals(t.rows, t.namesEnsured,
                        t.variantsInserted + vRes.insertedCount,
                        t.variantsDuplicates + vRes.duplicateCount,
                        t.meaningsInserted + mRes.insertedCount,
                        t.meaningsDuplicates + mRes.duplicateCount),
              !.aggregate.rows = PushRow(@,
                 [index |-> pub.i, canonicalKey |-> pub.key, nameId |-> pub.nameId,
                  variants |-> [inserted |-> vRes.insertedCount,
                                duplicates |-> DupDetails(vRes.duplicates, pub.langIdMap)],
                  meanings |-> [inserted |-> mRes.insertedCount,
                                duplicates |-> DupDetails(mRes.duplicates, pub.langIdMap)]])]
  /\ UNCHANGED <<pool, readers, http, langCache, race, storageVars, useMv, now, codec, search, chain>>

\* not a dry run: COMMIT, release, return aggregate
PublishCommit ==
  /\ pub.pc = "finish" /\ ~pub.dryRun
  /\ names' = Committed.names
  /\ variants' = Committed.variants
  /\ meanings' = Committed.meanings
  /\ tx' = NoTx
  /\ pub' = [pub EXCEPT !.pc = "done", !.last = Finished("done", pub.aggregate)]
  /\ UNCHANGED <<pool, readers, http, langCache, race, languages, mv, nameSeq, useMv, now, codec, search, chain>>

\* dry run: throw DryRunRollback, ROLLBACK, release, return err.result
PublishDryRunRollback ==
  /\ pub.pc = "finish" /\ pub.dryRun
  /\ names' = RolledBack.names
  /\ variants' = RolledBack.variants
  /\ meanings' = RolledBack.meanings
  /\ tx' = NoTx
  /\ pub' = [pub EXCEPT !.pc = DryRunOutcome, !.aggregate = DryRunResult,
                        !.last = Finished(DryRunOutcome, DryRunResult)]
  /\ UNCHANGED <<pool, readers, http, langCache, race, languages, mv, nameSeq, useMv, now, codec, search, chain>>

\* a storage error at the awaited step (connect, BEGIN, a query of a row,
\* COMMIT): ROLLBACK, release, rethrow
PublishStorageError ==
  /\ \/ pub.pc \in {"begin", "ensure", "variants", "meanings"}
     \/ pub.pc = "finish" /\ ~pub.dryRun
  /\ names' = RolledBack.names
  /\ variants' = RolledBack.variants
  /\ meanings' = RolledBack.meanings
  /\ tx' = NoTx
  /\ pub' = [pub EXCEPT !.pc = "failed", !.last = Finished("failed", pub.aggregate)]
  /\ UNCHANGED <<pool, readers, http, langCache, race, languages, mv, nameSeq, useMv, now, codec, search, chain>>

\* Date.now() advances
Tick ==
  /\ now < MaxClock
  /\ now' = now + 1
  /\ UNCHANGED <<pool, readers, http, langCache, race, storageVars, useMv, codec, search, chain, pub, tx>>

(***************************************************************************)
(* controllers/names.controller.ts: the summary of bulkPublishHandlers     *)
(***************************************************************************)
RowDuplicateDetails(r) ==
  [i \in 1..Len(r.variants.duplicates) |->
     [index |-> r.index, canonicalKey |-> r.canonicalKey, nameId |-> r.nameId,
      kind |-> "variant", language |-> r.variants.duplicates[i].language,
      value |-> r.variants.duplicates[i].value]]
  \o
  [i \in 1..Len(r.meanings.duplicates) |->
     [index |-> r.index, canonicalKey |-> r.canonicalKey, nameId |-> r.nameId,
      kind |-> "meaning", language |-> r.meanings.duplicates[i].language,
      value |-> r.meanings.duplicates[i].value]]

BulkSummary(result) ==
  [inserted |-> result.totals.variantsInserted + result.totals.meaningsInserted,
   duplicates |-> result.totals.variantsDuplicates + result.totals.meaningsDuplicates,
   duplicateDetails |-> Concat([i \in 1..Len(result.rows) |-> RowDuplicateDetails(result.rows[i])])]

(***************************************************************************)
(* The cursor codec on its own.                                            *)
(***************************************************************************)
MaxCursorId == 1100
MaxTextLen == 3

IdleCodec == [op |-> "none", n |-> 0, token |-> None, out |-> None, roundTrip |-> FALSE]

\* encodeCursor(n) for a positive integer n
CodecEncode(n) ==
  /\ codec.op = "none"
  /\ codec' = [op |-> "encode", n |-> n, token |-> Some(encodeCursor(n)), out |-> None,
               roundTrip |-> FALSE]
  /\ UNCHANGED <<pool, readers, http, langCache, race, storageVars, useMv, now, search, chain, pub, tx>>

\* decodeCursor of the token the last encodeCursor call produced
CodecDecodeEncoded ==
  /\ codec.op = "encode"
  /\ codec' = [codec EXCEPT !.op = "decode", !.out = decodeCursor(codec.token),
                            !.roundTrip = TRUE]
  /\ UNCHANGED <<pool, readers, http, langCache, race, storageVars, useMv, now, search, chain, pub, tx>>

\* decodeCursor(c) for an absent token or any token
CodecDecode(c) ==
  /\ codec.op = "none"
  /\ codec' = [op |-> "decode", n |-> 0, token |-> c, out |-> decodeCursor(c),
               roundTrip |-> FALSE]
  /\ UNCHANGED <<pool, readers, http, langCache, race, storageVars, useMv, now, search, chain, pub, tx>>

\* the caller has the result
CodecReturn ==
  /\ codec.op = "decode"
  /\ codec' = IdleCodec
  /\ UNCHANGED <<pool, readers, http, langCache, race, storageVars, useMv, now, search, chain, pub, tx>>

RECURSIVE TextsUpTo(_, _)
\* the texts over an alphabet of at most n characters
TextsUpTo(alphabet, n) ==
  IF n = 0 THEN {<<>>}
  ELSE LET shorter == TextsUpTo(alphabet, n - 1)
       IN  shorter \cup {<<c>> \o t : c \in alphabet, t \in {u \in shorter : Len(u) = n - 1}}

CodecAlphabet == {"0", "1", "5", ".", "-", " ", "a"}

\* tokens a client can send: absent, the base64 of a short text, or not base64
CodecTokens ==
  {None}
    \cup {Some(Base64Encode(Utf8Bytes(t))) : t \in TextsUpTo(CodecAlphabet, MaxTextLen)}
    \cup {Some(<<"!", "!">>), Some(<<"M">>), Some(<<"M", "Q">>), Some(<<"*", "M", "Q", "=">>)}

(***************************************************************************)
(* Search requests against a fixed storage state.                          *)
(***************************************************************************)
MaxNames == 3
MaxPageSize == 2
MaxPage == 3

tMar == <<"M", "a", "r">>
tOmar == <<"o", "m", "a", "r">>
tBob == <<"b", "o", "b">>
tMa == <<"m", "a">>
tDash == <<"-">>
tX == <<"x">>
tY == <<"y">>
tZ == <<"z">>

Languages == {[id |-> 1, code |-> "en"], [id |-> 2, code |-> "ta"], [id |-> 3, code |-> "fr"]}

\* what a name can have: the (locale, value) pairs of its variants and meanings
Profiles ==
  {[variants |-> {<<"en", tMar>>}, meanings |-> {<<"en", tX>>}],
   [variants |-> {<<"en", tOmar>>, <<"ta", tMa>>}, meanings |-> {<<"en", tX>>}],
   [variants |-> {<<"en", tBob>>, <<"fr", tMar>>}, meanings |-> {<<"fr", tY>>, <<"en", tX>>}],
   [variants |-> {<<"en", tMar>>, <<"ta", tMa>>}, meanings |-> {<<"ta", tY>>, <<"ta", tZ>>}]}

CodeId(code) == (CHOOSE r \in Languages : r.code = code).id

NamesOf(prof) ==
  {[id |-> i, canonical_key |-> <<"a">> \o NatDigits(i), updated_at |-> 0] : i \in DOMAIN prof}

RECURSIVE Numbered(_, _)
\* the rows of a set, with row ids from first on
Numbered(S, first) ==
  IF S = {} THEN {}
  ELSE LET x == CHOOSE y \in S : TRUE
       IN  {[x EXCEPT !.id = first]} \cup Numbered(S \ {x}, first + 1)

VariantsOf(prof) ==
  Numbered(UNION {{[id |-> 0, name_id |-> i, language_id |-> CodeId(p[1]),
                    variant_name |-> p[2]] : p \in prof[i].variants} : i \in DOMAIN prof}, 1)

MeaningsOf(prof) ==
  Numbered(UNION {{[id |-> 0, name_id |-> i, language_id |-> CodeId(p[1]),
                    meaning |-> p[2]] : p \in prof[i].meanings} : i \in DOMAIN prof}, 1)

\* name_search_mv as a refresh builds it: one row per name, its variants per
\* locale, one meaning per locale, and the lower-cased variants as search blob
MvMeaning(ms, nameId, code) ==
  LET S == {m.meaning : m \in {w \in ms : w.name_id = nameId /\ w.language_id = CodeId(code)}}
  IN  IF S = {} THEN None ELSE Some(SortTexts(S)[1])

MvValues(vs, nameId, code) ==
  SortTexts({v.variant_name : v \in {w \in vs : w.name_id = nameId
                                               /\ w.language_id = CodeId(code)}})

RefreshedMV(ns, vs, ms) ==
  {[name_id |-> n.id,
    tamil |-> IF MvValues(vs, n.id, "ta") = <<>> THEN None ELSE Some(MvValues(vs, n.id, "ta")[1]),
    english |-> Some([i \in 1..Len(MvValues(vs, n.id, "en")) |->
                        Some(MvValues(vs, n.id, "en")[i])]),
    french |-> Some([i \in 1..Len(MvValues(vs, n.id, "fr")) |->
                       Some(MvValues(vs, n.id, "fr")[i])]),
    meaning_by_lang |-> [c \in LangCodes |-> MvMeaning(ms, n.id, c)],
    search_blob |-> ToLower(Concat([i \in 1..3 |->
                       Concat([j \in 1..Len(MvValues(vs, n.id, <<"en", "ta", "fr">>[i])) |->
                                 MvValues(vs, n.id, <<"en", "ta", "fr">>[i])[j] \o <<" ">>])]))]
     : n \in ns}

\* cursor tokens of the requests: absent, the cursor of an id, and one that
\* decodes to no cursor ("MA==" is the text 0)
SearchTokens ==
  {None, Some(<<"M", "A", "=", "=">>)}
    \cup {Some(encodeCursor(i)) : i \in 1..MaxNames}

Request(text, lang, limit, page, cursor) ==
  [searchText |-> text, lang |-> lang, pagePerRecord |-> limit, page |-> page,
   cursor |-> cursor]

IdleSearch ==
  [valid |-> FALSE, req |-> Request(<<>>, "en", 1, 1, None), error |-> FALSE,
   resp |-> EmptyResponse(0), ids |-> <<>>, queries |-> <<>>, cursorId |-> None,
   page |-> <<>>]

IdleChain == [active |-> FALSE, ids |-> <<>>, pages |-> 0]

Answered(input, out) ==
  [valid |-> TRUE, req |-> input, error |-> out.error, resp |-> out.resp, ids |-> out.ids,
   queries |-> out.queries, cursorId |-> out.cursorId, page |-> out.page]

\* a request without cursor for page 1: the first of a chained sequence
SearchFirst(text, lang, limit) ==
  /\ ~search.valid
  /\ \E out \in searchNames(Request(text, lang, limit, 1, None)) :
       /\ search' = Answered(Request(text, lang, limit, 1, None), out)
       /\ chain' = [active |-> TRUE, ids |-> out.ids, pages |-> 1]
  /\ UNCHANGED <<pool, readers, http, langCache, race, storageVars, useMv, now, codec, pub, tx>>

\* the next request of the sequence: the same search, cursor = nextCursor
SearchNext ==
  /\ chain.active /\ search.valid /\ search.resp.nextCursor # None
  /\ chain.pages < Cardinality(names) + 2
  /\ LET input == [search.req EXCEPT !.cursor = search.resp.nextCursor]
     IN  \E out \in searchNames(input) :
           /\ search' = Answered(input, out)
           /\ chain' = [chain EXCEPT !.ids = @ \o out.ids, !.pages = @ + 1]
  /\ UNCHANGED <<pool, readers, http, langCache, race, storageVars, useMv, now, codec, pub, tx>>

\* any other request
SearchAny(text, lang, limit, page, cursor) ==
  /\ ~search.valid
  /\ page > 1 \/ cursor # None
  /\ \E out \in searchNames(Request(text, lang, limit, page, cursor)) :
       search' = Answered(Request(text, lang, limit, page, cursor), out)
  /\ chain' = IdleChain
  /\ UNCHANGED <<pool, readers, http, langCache, race, storageVars, useMv, now, codec, pub, tx>>

\* the response has been sent
SearchReturn ==
  /\ search.valid
  /\ search' = IdleSearch
  /\ chain' = IdleChain
  /\ UNCHANGED <<pool, readers, http, langCache, race, storageVars, useMv, now, codec, pub, tx>>

(***************************************************************************)
(* Bulk publish requests.                                                  *)
(***************************************************************************)
Pair(lang, value) == [lang |-> lang, value |-> value]

NameRow(key, vs, ms) == [canonicalKey |-> key, variants |-> vs, meanings |-> ms]

rowMar == NameRow(None, <<Pair("en", tMar)>>, <<Pair("en", tX)>>)
rowMaMar == NameRow(None, <<Pair("ta", tMa), Pair("en", tMar)>>, <<>>)
rowKeyed == NameRow(Some(<<"a", "b">>), <<Pair("en", tOmar)>>, <<Pair("en", tX), Pair("en", tZ)>>)
rowDash == NameRow(None, <<Pair("en", tDash)>>, <<>>)
rowMa == NameRow(None, <<Pair("ta", tMa)>>, <<Pair("ta", tY)>>)

\* request bodies that pass BulkPublishSchema
Batches == {<<rowMar>>, <<rowMar, rowMaMar>>, <<rowKeyed>>, <<rowDash>>, <<rowMa, rowKeyed>>}

(***************************************************************************)
(* Two bulkPublish calls in flight at once.  Each call has its own pool    *)
(* connection and transaction (withTransaction); the storage engine runs   *)
(* them at its default isolation level: a statement sees the committed     *)
(* rows and the rows its own transaction wrote, a write that conflicts     *)
(* with a row another open transaction wrote waits for that transaction    *)
(* to end, and when each of two transactions waits for the other the       *)
(* engine aborts one of them with "deadlock detected".                     *)
(***************************************************************************)
Callers == {1, 2}

Other(p) == 3 - p

IdleCall ==
  [pc |-> "idle", rows |-> <<>>, i |-> 0, key |-> <<>>, nameId |-> 0, vRes |-> EmptyUpsert,
   aggregate |-> NewAggregate(<<>>, FALSE), langIdMap |-> <<>>, started |-> 0,
   names |-> {}, variants |-> {}, meanings |-> {}, cause |-> "none", overlapped |-> FALSE]

IdleRace == [p \in Callers |-> IdleCall]

KeysOf(ns) == {n.canonical_key : n \in ns}

\* the names a statement of caller p sees
RaceNames(p) ==
  {n \in names : n.canonical_key \notin KeysOf(race[p].names)} \cup race[p].names

\* the variants and meanings a statement writes against: the committed rows
\* and the uncommitted rows of both transactions (a statement runs only when
\* none of the rows it submits is an uncommitted row of the other one)
RaceVariants == variants \cup race[1].variants \cup race[2].variants

RaceMeanings == meanings \cup race[1].meanings \cup race[2].meanings

\* a storage engine that lets the statement run beside the other transaction
NameLocked_Never(p, canonicalKey) == FALSE

\* the other open transaction wrote the name row of this key
NameLocked(p, canonicalKey) == canonicalKey \in KeysOf(race[Other(p)].names)

\* the other open transaction inserted one of the submitted rows
RowLocked(table, nameId, items, field) ==
  \E r \in table : \E i \in 1..Len(items) :
     /\ r.name_id = nameId
     /\ r.language_id = items[i].language_id
     /\ r[field] = items[i].value

RaceRow(p) == race[p].rows[race[p].i + 1]

\* the statement caller p is about to run has to wait for the other call
WaitsForOther(p) ==
  CASE race[p].pc = "ensure" -> NameLocked(p, CanonicalKeyOf(RaceRow(p), now))
    [] race[p].pc = "variants" ->
         RowLocked(race[Other(p)].variants, race[p].nameId,
                   RepoItems(RaceRow(p).variants, race[p].langIdMap), "variant_name")
    [] race[p].pc = "meanings" ->
         RowLocked(race[Other(p)].meanings, race[p].nameId,
                   RepoItems(RaceRow(p).meanings, race[p].langIdMap), "meaning")
    [] OTHER -> FALSE

\* bulkPublish(rows, false) is called; lines 131-160
RaceCall(p, rows) ==
  /\ race[p].pc = "idle"
  /\ loadLanguageMap.ok
  /\ race' = [race EXCEPT ![p] = [IdleCall EXCEPT
                 !.pc = "begin", !.rows = rows, !.aggregate = NewAggregate(rows, FALSE),
                 !.langIdMap = getLanguageIds(UniqueCodes(rows))]]
  /\ UNCHANGED <<pool, readers, http, langCache, storageVars, useMv, now, codec, search, chain, pub, tx>>

\* pool.connect() and BEGIN; overlapped: the transaction of the other call is
\* open and has written
RaceOpen(p) ==
  /\ race[p].pc = "begin"
  /\ race' = [race EXCEPT ![p].pc = "ensure", ![p].started = now,
                          ![p].overlapped = race[Other(p)].pc \in {"variants", "meanings", "finish"}]
  /\ UNCHANGED <<pool, readers, http, langCache, storageVars, useMv, now, codec, search, chain, pub, tx>>

\* lines 165-170 for row i: the INSERT ... ON CONFLICT (canonical_key) DO UPDATE
RaceEnsureName(p) ==
  /\ race[p].pc = "ensure"
  /\ ~WaitsForOther(p)
  /\ LET canonicalKey == CanonicalKeyOf(RaceRow(p), now)
         e == ensureNameIn(RaceNames(p), canonicalKey, race[p].started)
     IN  /\ nameSeq' = nameSeq + 1
         /\ race' = [race EXCEPT
              ![p].pc = "variants", ![p].key = canonicalKey, ![p].nameId = e.id,
              ![p].aggregate.totals.namesEnsured = @ + 1,
              ![p].names = {n \in e.names :
                              n.canonical_key \in KeysOf(race[p].names) \cup {canonicalKey}}]
  /\ UNCHANGED <<pool, readers, http, langCache, languages, names, variants, meanings, mv, useMv, now, codec, search, chain,
                 pub, tx>>

\* line 184 for row i
RaceUpsertVariants(p) ==
  /\ race[p].pc = "variants"
  /\ ~WaitsForOther(p)
  /\ LET u == upsertVariantsIn(RaceVariants, race[p].nameId,
                               RepoItems(RaceRow(p).variants, race[p].langIdMap))
     IN  race' = [race EXCEPT
           ![p].pc = "meanings", ![p].vRes = u.result,
           ![p].variants = u.table \ (variants \cup race[Other(p)].variants)]
  /\ UNCHANGED <<pool, readers, http, langCache, storageVars, useMv, now, codec, search, chain, pub, tx>>

\* lines 185-211 for row i
RaceUpsertMeanings(p) ==
  /\ race[p].pc = "meanings"
  /\ ~WaitsForOther(p)
  /\ LET u == upsertMeaningsIn(RaceMeanings, race[p].nameId,
                               RepoItems(RaceRow(p).meanings, race[p].langIdMap))
         vRes == race[p].vRes
         mRes == u.result
         t == race[p].aggregate.totals
     IN  race' = [race EXCEPT
           ![p].pc = IF race[p].i + 1 < Len(race[p].rows) THEN "ensure" ELSE "finish",
           ![p].i = @ + 1,
           ![p].meanings = u.table \ (meanings \cup race[Other(p)].meanings),
           ![p].aggregate.totals =
              Totals(t.rows, t.namesEnsured,
                     t.variantsInserted + vRes.insertedCount,
                     t.variantsDuplicates + vRes.duplicateCount,
                     t.meaningsInserted + mRes.insertedCount,
                     t.meaningsDuplicates + mRes.duplicateCount),
           ![p].aggregate.rows = PushRow(@,
              [index |-> race[p].i, canonicalKey |-> race[p].key, nameId |-> race[p].nameId,
               variants |-> [inserted |-> vRes.insertedCount,
                             duplicates |-> DupDetails(vRes.duplicates, race[p].langIdMap)],
               meanings |-> [inserted |-> mRes.insertedCount,
                             duplicates |-> DupDetails(mRes.duplicates, race[p].langIdMap)]])]
  /\ UNCHANGED <<pool, readers, http, langCache, storageVars, useMv, now, codec, search, chain, pub, tx>>

\* COMMIT, release, return aggregate
RaceCommit(p) ==
  /\ race[p].pc = "finish"
  /\ names' = RaceNames(p)
  /\ variants' = variants \cup race[p].variants
  /\ meanings' = meanings \cup race[p].meanings
  /\ race' = [race EXCEPT ![p].pc = "done", ![p].names = {}, ![p].variants = {},
                          ![p].meanings = {}]
  /\ UNCHANGED <<pool, readers, http, langCache, languages, mv, nameSeq, useMv, now, codec, search, chain, pub, tx>>

\* the catch of withTransaction: ROLLBACK, release, rethrow
Thrown(p, cause) ==
  [race EXCEPT ![p].pc = "failed", ![p].cause = cause, ![p].names = {}, ![p].variants = {},
               ![p].meanings = {}]

\* a storage error at the awaited step, whatever the other call does
RaceStorageError(p) ==
  /\ race[p].pc \in {"begin", "ensure", "variants", "meanings", "finish"}
  /\ race' = Thrown(p, "storage")
  /\ UNCHANGED <<pool, readers, http, langCache, storageVars, useMv, now, codec, search, chain, pub, tx>>

\* each call waits for the other: the engine makes the statement of one fail
RaceDeadlock(p) ==
  /\ WaitsForOther(p)
  /\ WaitsForOther(Other(p))
  /\ race' = Thrown(p, "deadlock")
  /\ UNCHANGED <<pool, readers, http, langCache, storageVars, useMv, now, codec, search, chain, pub, tx>>

rowA == NameRow(Some(<<"a">>), <<Pair("en", tMar)>>, <<>>)
rowB == NameRow(Some(<<"b">>), <<Pair("en", tBob)>>, <<Pair("en", tX)>>)
rowC == NameRow(Some(<<"c">>), <<Pair("ta", tMa)>>, <<>>)

\* request bodies of the concurrent calls
RaceBatches == {<<rowA>>, <<rowA, rowB>>, <<rowB, rowA>>, <<rowC, rowA>>}

(***************************************************************************)
(* services/language.service.ts: the cached language mapping (the module   *)
(* with cacheExp and TTL_MS), and the calls that wait for it.              *)
(***************************************************************************)
NoMap == [c \in LangCodes |-> 0]

IdleLang ==
  [cache |-> None, cacheExp |-> 0, ttl |-> 1,
   pc |-> "idle", caller |-> "none", t0 |-> 0, loads |-> 0,
   was |-> [cache |-> None, cacheExp |-> 0],
   out |-> [ok |-> FALSE, map |-> NoMap]]

\* a reload that accepts whatever rows it finds
ReloadResult_Partial(lm) == [ok |-> TRUE, map |-> lm.map]

\* `const fresh = await loadLanguageMap()`: the mapping, or the error thrown
ReloadResult(lm) == lm

\* the expiry counted from the moment the reload is stored
CacheExpiry_AtStore(t0, ttl) == now + ttl

\* `cacheExp = now + TTL_MS`, now being read at line 42
CacheExpiry(t0, ttl) == t0 + ttl

\* `cache && now < cacheExp`
CacheFresh(t) == langCache.cache # None /\ t < langCache.cacheExp

\* getLangMap up to its await: lines 42-45
getLangMapEnter(caller) ==
  IF CacheFresh(now)
    THEN [langCache EXCEPT !.pc = "return", !.caller = caller, !.t0 = now, !.loads = 0,
            !.was = [cache |-> langCache.cache, cacheExp |-> langCache.cacheExp],
            !.out = [ok |-> TRUE, map |-> langCache.cache[1]]]
    ELSE [langCache EXCEPT !.pc = "loading", !.caller = caller, !.t0 = now, !.loads = 0,
            !.was = [cache |-> langCache.cache, cacheExp |-> langCache.cacheExp],
            !.out = [ok |-> FALSE, map |-> NoMap]]

\* a request is being handled past its use of the mapping; what happens to
\* the cache meanwhile is the same as what happens to it afterwards
Handling ==
  \/ pub.pc \in {"begin", "ensure", "variants", "meanings", "finish"}
  \/ search.valid

\* getLangMap() called on its own
LangGet ==
  /\ langCache.pc = "idle" /\ ~Handling
  /\ langCache' = getLangMapEnter("get")
  /\ UNCHANGED <<pool, readers, http, storageVars, useMv, now, codec, search, chain, pub, tx, race>>

\* the query of loadLanguageMap answers: lines 45-48, or the error is thrown
LangLoad ==
  /\ langCache.pc = "loading"
  /\ LET fresh == ReloadResult(loadLanguageMap)
     IN  langCache' =
           IF fresh.ok
             THEN [langCache EXCEPT !.pc = "return", !.loads = @ + 1, !.out = fresh,
                     !.cache = Some(fresh.map),
                     !.cacheExp = CacheExpiry(langCache.t0, langCache.ttl)]
             ELSE [langCache EXCEPT !.pc = "return", !.loads = @ + 1, !.out = fresh]
  /\ UNCHANGED <<pool, readers, http, storageVars, useMv, now, codec, search, chain, pub, tx, race>>

\* the caller of getLangMap() has the mapping or the error
LangReturn ==
  /\ langCache.pc = "return" /\ langCache.caller = "get"
  /\ langCache' = [langCache EXCEPT !.pc = "idle"]
  /\ UNCHANGED <<pool, readers, http, storageVars, useMv, now, codec, search, chain, pub, tx, race>>

\* refreshLangMap(): lines 55-59
LangRefresh ==
  /\ langCache.pc \in {"idle", "loading"} /\ ~Handling
  /\ LET fresh == ReloadResult(loadLanguageMap)
     IN  langCache' =
           IF fresh.ok
             THEN [langCache EXCEPT !.cache = Some(fresh.map), !.cacheExp = now + langCache.ttl]
             ELSE langCache
  /\ UNCHANGED <<pool, readers, http, storageVars, useMv, now, codec, search, chain, pub, tx, race>>

\* clearLanguageCache()
LangClear ==
  /\ langCache.pc \in {"idle", "loading"} /\ ~Handling
  /\ langCache' = [langCache EXCEPT !.cache = None, !.cacheExp = 0]
  /\ UNCHANGED <<pool, readers, http, storageVars, useMv, now, codec, search, chain, pub, tx, race>>

\* configureLanguageCache({ttlMs})
LangConfigure(ttlMs) ==
  /\ langCache.pc \in {"idle", "loading"} /\ ~Handling
  /\ langCache' = IF ttlMs > 0 THEN [langCache EXCEPT !.ttl = ttlMs] ELSE langCache
  /\ UNCHANGED <<pool, readers, http, storageVars, useMv, now, codec, search, chain, pub, tx, race>>

\* locale rows are provisioned or removed from outside
LocaleProvision(rows) ==
  /\ langCache.pc \in {"idle", "loading"} /\ ~Handling
  /\ rows # languages
  /\ languages' = rows
  /\ UNCHANGED <<pool, readers, http, langCache, names, variants, meanings, mv, nameSeq, useMv, now, codec, search,
                 chain, pub, tx, race>>

\* searchNames(input) up to `await getLangMap()`: lines 17-19
LangSearchCall(input) ==
  /\ langCache.pc = "idle" /\ ~Handling
  /\ search' = [IdleSearch EXCEPT !.req = input]
  /\ chain' = IdleChain
  /\ langCache' = getLangMapEnter("search")
  /\ UNCHANGED <<pool, readers, http, storageVars, useMv, now, codec, pub, tx, race>>

\* searchNames from line 19 on, with the mapping, or the error passed on
LangSearchResume ==
  /\ langCache.pc = "return" /\ langCache.caller = "search"
  /\ \E out \in searchNamesWith(langCache.out, search.req) :
       search' = Answered(search.req, out)
  /\ langCache' = [langCache EXCEPT !.pc = "idle"]
  /\ UNCHANGED <<pool, readers, http, storageVars, useMv, now, codec, chain, pub, tx, race>>

\* bulkPublish(rows, {dryRun}) up to `await getLanguageIds(...)`: lines 130-143
LangPublishCall(rows, dryRun) ==
  /\ langCache.pc = "idle" /\ ~Handling
  /\ pub.pc = "idle"
  /\ pub' = [pub EXCEPT !.pc = "langs", !.calls = @ + 1, !.rows = rows, !.dryRun = dryRun,
                        !.t0 = now, !.i = 0, !.aggregate = NewAggregate(rows, dryRun),
                        !.langIdMap = <<>>,
                        !.pre = Snapshot, !.preCounts = MatchCounts, !.before = <<>>,
                        !.prev = pub.last]
  /\ langCache' = getLangMapEnter("publish")
  /\ UNCHANGED <<pool, readers, http, storageVars, useMv, now, codec, search, chain, tx, race>>

\* bulkPublish from line 143 on: the ids of the codes, or the error passed on
LangPublishResume ==
  /\ langCache.pc = "return" /\ langCache.caller = "publish"
  /\ pub' = IF langCache.out.ok
              THEN [pub EXCEPT !.pc = "begin",
                      !.langIdMap = getLanguageIdsOf(langCache.out.map, UniqueCodes(pub.rows))]
              ELSE [pub EXCEPT !.pc = "failed", !.last = Finished("failed", pub.aggregate)]
  /\ langCache' = [langCache EXCEPT !.pc = "idle"]
  /\ UNCHANGED <<pool, readers, http, storageVars, useMv, now, codec, search, chain, tx, race>>

\* the languages table as provisioned, and with locales missing
LocaleSets == {Languages, {r \in Languages : r.code # "fr"}}

LangRequests ==
  {Request(<<"M", "a">>, "en", 1, page, None) : page \in 1..2}

LangBatches == {<<rowA>>}

(***************************************************************************)
(* services/language.service.ts with several calls in flight: each `await  *)
(* loadLanguageMap()` is a query sent, run by the database at some moment  *)
(* and answered later, and other calls run in between.                     *)
(***************************************************************************)
MaxSeq == 3
MaxConfigs == 1

IdleReader ==
  [pc |-> "idle", op |-> "none", t0 |-> 0, began |-> 0, loaded |-> FALSE,
   expired |-> FALSE, during |-> FALSE, afterClear |-> FALSE, snapshot |-> None,
   fresh |-> [ok |-> FALSE, map |-> NoMap], out |-> [ok |-> FALSE, map |-> NoMap]]

\* call: the calls of getLangMap and refreshLangMap in flight; seq: the calls
\* made so far, in order; cacheFrom: the position of the call whose load
\* filled the cache; barrier: the position of the last clearLanguageCache or
\* completed refreshLangMap; cleared: nothing was called since the last
\* clearLanguageCache; cfgs, cfg: the calls of configureLanguageCache and the
\* last `opts.ttlMs`
IdleReaders ==
  [call |-> [p \in Callers |-> IdleReader], seq |-> 0, cacheFrom |-> 0, barrier |-> 0,
   cleared |-> FALSE, cfgs |-> 0, cfg |-> None]

\* a load of the mapping by another call is in progress, begun because the
\* cached snapshot had expired
ReloadInProgress(p) ==
  \E q \in Callers \ {p} :
     /\ readers.call[q].pc \in {"loading", "answered"}
     /\ readers.call[q].op = "get"
     /\ readers.call[q].expired

\* getLangMap(), lines 42-45: the cached mapping, or the query is sent
ReaderGet(p) ==
  /\ readers.call[p].pc \in {"idle", "done"}
  /\ readers.seq < MaxSeq
  /\ LET entry == [IdleReader EXCEPT !.op = "get", !.t0 = now, !.began = readers.seq + 1,
                     !.during = ReloadInProgress(p) /\ langCache.cache # None,
                     !.afterClear = readers.cleared, !.snapshot = langCache.cache]
     IN  readers' = [readers EXCEPT !.seq = @ + 1, !.cleared = FALSE,
                       !.call[p] =
                         IF CacheFresh(now)
                           THEN [entry EXCEPT !.pc = "done",
                                   !.out = [ok |-> TRUE, map |-> langCache.cache[1]]]
                           ELSE [entry EXCEPT !.pc = "loading", !.loaded = TRUE,
                                   !.expired = langCache.cache # None]]
  /\ UNCHANGED <<pool, http, langCache, storageVars, useMv, now, codec, search, chain, pub, tx, race>>

\* refreshLangMap(), line 56: the query is sent
ReaderRefresh(p) ==
  /\ readers.call[p].pc \in {"idle", "done"}
  /\ readers.seq < MaxSeq
  /\ readers' = [readers EXCEPT !.seq = @ + 1, !.cleared = FALSE,
                   !.call[p] = [IdleReader EXCEPT !.pc = "loading", !.op = "refresh",
                                  !.t0 = now, !.began = readers.seq + 1, !.loaded = TRUE,
                                  !.snapshot = langCache.cache]]
  /\ UNCHANGED <<pool, http, langCache, storageVars, useMv, now, codec, search, chain, pub, tx, race>>

\* the database runs the query of loadLanguageMap on the table as it is
ReaderQuery(p) ==
  /\ readers.call[p].pc = "loading"
  /\ readers' = [readers EXCEPT !.call[p].pc = "answered",
                                !.call[p].fresh = ReloadResult(loadLanguageMap)]
  /\ UNCHANGED <<pool, http, langCache, storageVars, useMv, now, codec, search, chain, pub, tx, race>>

\* the await resumes: lines 46-48 of getLangMap, lines 57-58 of
\* refreshLangMap, or the error of loadLanguageMap is thrown
ReaderStore(p) ==
  /\ readers.call[p].pc = "answered"
  /\ LET c == readers.call[p]
     IN  IF c.fresh.ok
           THEN /\ langCache' = [langCache EXCEPT !.cache = Some(c.fresh.map),
                                   !.cacheExp = IF c.op = "get"
                                                  THEN CacheExpiry(c.t0, langCache.ttl)
                                                  ELSE now + langCache.ttl]
                /\ readers' = [readers EXCEPT !.call[p].pc = "done", !.call[p].out = c.fresh,
                                 !.cacheFrom = c.began,
                                 !.barrier = IF c.op = "refresh" /\ c.began > @
                                               THEN c.began ELSE @]
           ELSE /\ langCache' = langCache
                /\ readers' = [readers EXCEPT !.call[p].pc = "done", !.call[p].out = c.fresh]
  /\ UNCHANGED <<pool, http, storageVars, useMv, now, codec, search, chain, pub, tx, race>>

\* clearLanguageCache(), lines 31-34
ReaderClear ==
  /\ readers.seq < MaxSeq
  /\ langCache' = [langCache EXCEPT !.cache = None, !.cacheExp = 0]
  /\ readers' = [readers EXCEPT !.seq = @ + 1, !.barrier = readers.seq + 1, !.cleared = TRUE]
  /\ UNCHANGED <<pool, http, storageVars, useMv, now, codec, search, chain, pub, tx, race>>

\* `if (typeof opts.ttlMs === 'number' && opts.ttlMs > 0) TTL_MS = opts.ttlMs`
ConfiguredTtl(ttlMs, ttl) == IF ttlMs # None /\ ttlMs[1] > 0 THEN ttlMs[1] ELSE ttl

\* configureLanguageCache(opts), lines 24-28; ttlMs is None when it is missing
ReaderConfigure(ttlMs) ==
  /\ readers.cfgs < MaxConfigs
  /\ langCache' = [langCache EXCEPT !.ttl = ConfiguredTtl(ttlMs, @)]
  /\ readers' = [readers EXCEPT !.cfgs = @ + 1, !.cfg = ttlMs]
  /\ UNCHANGED <<pool, http, storageVars, useMv, now, codec, search, chain, pub, tx, race>>

\* the languages table is rewritten from outside
ReaderProvision(rows) ==
  /\ rows # languages
  /\ languages' = rows
  /\ UNCHANGED <<pool, http, readers, langCache, names, variants, meanings, mv, nameSeq, useMv, now,
                 codec, search, chain, pub, tx, race>>

TtlInputs == {None} \cup {Some(n) : n \in -1..2}

(***************************************************************************)
(* repositories/names.repo.ts: withTransaction, one action per await, with *)
(* the pool the connections are taken from and released to.                *)
(***************************************************************************)
PoolSize == 2

\* log: the statements sent on the connection, in order; e: the error caught
\* at line 131; rollbackError: the error of ROLLBACK, caught and dropped at
\* line 132; releases: the calls of client.release(); outcome: what the
\* caller of withTransaction gets
IdleTxCall ==
  [pc |-> "idle", log |-> <<>>, fn |-> "none", committed |-> FALSE, e |-> "none",
   rollbackError |-> "none", releases |-> 0, outcome |-> "none"]

IdlePool == [free |-> PoolSize, call |-> [p \in Callers |-> IdleTxCall]]

\* the rollback's error handed on when there is one
Rethrown_RollbackError(e, rollbackError) ==
  IF rollbackError # "none" THEN rollbackError ELSE e

\* `try { await client.query('ROLLBACK'); } catch {} throw e;`
Rethrown(e, rollbackError) == e

\* withTransaction(fn) is called: line 125 up to the await
TxCall(p) ==
  /\ pool.call[p].pc \in {"idle", "returned", "thrown"}
  /\ pool' = [pool EXCEPT !.call[p] = [IdleTxCall EXCEPT !.pc = "connect"]]
  /\ UNCHANGED <<readers, http, langCache, race, storageVars, useMv, now, codec, search, chain, pub, tx>>

\* pool.connect() resolves with a free connection, or rejects: the error
\* leaves withTransaction from outside its try
TxConnect(p, ok) ==
  /\ pool.call[p].pc = "connect"
  /\ ok => pool.free > 0
  /\ pool' = IF ok
               THEN [pool EXCEPT !.free = @ - 1, !.call[p].pc = "begin"]
               ELSE [pool EXCEPT !.call[p].pc = "thrown", !.call[p].outcome = "connect"]
  /\ UNCHANGED <<readers, http, langCache, race, storageVars, useMv, now, codec, search, chain, pub, tx>>

\* line 127: await client.query('BEGIN')
TxBegin(p, ok) ==
  /\ pool.call[p].pc = "begin"
  /\ pool' = [pool EXCEPT !.call[p].log = Append(@, "BEGIN"),
                          !.call[p].pc = IF ok THEN "fn" ELSE "rollback",
                          !.call[p].e = IF ok THEN "none" ELSE "begin"]
  /\ UNCHANGED <<readers, http, langCache, race, storageVars, useMv, now, codec, search, chain, pub, tx>>

\* line 128: await fn(client) returns or throws
TxCallback(p, ok) ==
  /\ pool.call[p].pc = "fn"
  /\ pool' = [pool EXCEPT !.call[p].fn = IF ok THEN "returned" ELSE "threw",
                          !.call[p].pc = IF ok THEN "commit" ELSE "rollback",
                          !.call[p].e = IF ok THEN "none" ELSE "fn"]
  /\ UNCHANGED <<readers, http, langCache, race, storageVars, useMv, now, codec, search, chain, pub, tx>>

\* line 129: await client.query('COMMIT')
TxCommit(p, ok) ==
  /\ pool.call[p].pc = "commit"
  /\ pool' = [pool EXCEPT !.call[p].log = Append(@, "COMMIT"),
                          !.call[p].committed = ok,
                          !.call[p].pc = IF ok THEN "release" ELSE "rollback",
                          !.call[p].e = IF ok THEN "none" ELSE "commit"]
  /\ UNCHANGED <<readers, http, langCache, race, storageVars, useMv, now, codec, search, chain, pub, tx>>

\* line 132: ROLLBACK, its own failure caught and dropped
TxRollback(p, ok) ==
  /\ pool.call[p].pc = "rollback"
  /\ pool' = [pool EXCEPT !.call[p].log = Append(@, "ROLLBACK"),
                          !.call[p].rollbackError = IF ok THEN "none" ELSE "rollback",
                          !.call[p].pc = "release"]
  /\ UNCHANGED <<readers, http, langCache, race, storageVars, useMv, now, codec, search, chain, pub, tx>>

\* lines 130, 133, 135: the finally releases, then `return out` or `throw e`
TxRelease(p) ==
  /\ pool.call[p].pc = "release"
  /\ LET c == pool.call[p]
     IN  pool' = [pool EXCEPT !.free = @ + 1,
                              !.call[p].releases = @ + 1,
                              !.call[p].pc = IF c.e = "none" THEN "returned" ELSE "thrown",
                              !.call[p].outcome = IF c.e = "none" THEN "out"
                                                  ELSE Rethrown(c.e, c.rollbackError)]
  /\ UNCHANGED <<readers, http, langCache, race, storageVars, useMv, now, codec, search, chain, pub, tx>>

(***************************************************************************)
(* types/dtos.ts: BulkPublishSchema, and POST /names/bulk                  *)
(* (utils/validate.ts: validateBody; controllers/names.controller.ts:      *)
(* bulkPublishHandlers).  A request body has rows with an optional         *)
(* canonicalKey, variants, and optional meanings; the values are raw text. *)
(***************************************************************************)
ValueMaxLen == 255
MeaningMaxLen == 1000
CanonicalKeyMaxLen == 100
RowsMaxLen == 2000

\* VariantSchema / MeaningSchema: lang of LangEnum, value trimmed, 1..maxLen
ItemOk(item, maxLen) ==
  /\ item.lang \in LangCodes
  /\ Len(Trim(item.value)) >= 1
  /\ Len(Trim(item.value)) <= maxLen

ItemData(item) == [lang |-> item.lang, value |-> Trim(item.value)]

\* /^[a-z0-9_\-\.]+$/i
IsKeyChar(c) ==
  \/ LowerChar(c) \in {"a", "b", "m", "o", "r", "x", "y", "z", "_", "-", "."}
  \/ IsDigit(c)

CanonicalKeyOk(key) ==
  key = None \/ (/\ Len(Trim(key[1])) >= 1
                 /\ Len(Trim(key[1])) <= CanonicalKeyMaxLen
                 /\ \A i \in 1..Len(Trim(key[1])) : IsKeyChar(Trim(key[1])[i]))

\* a refinement that reports nothing
HasDuplicate_Never(items) == FALSE

\* superRefine: a key `${lang}:${value.toLowerCase()}` seen before
HasDuplicate(items) ==
  \E i \in 1..Len(items) : \E j \in 1..(i - 1) :
     /\ items[i].lang = items[j].lang
     /\ ToLower(items[i].value) = ToLower(items[j].value)

\* meanings: optional, default []
MeaningsOrDefault(row) == IF row.meanings = None THEN <<>> ELSE row.meanings[1]

\* NameRowSchema.safeParse
NameRowParse(row) ==
  LET vs == [i \in 1..Len(row.variants) |-> ItemData(row.variants[i])]
      ms == [i \in 1..Len(MeaningsOrDefault(row)) |-> ItemData(MeaningsOrDefault(row)[i])]
  IN  [success |->
         /\ CanonicalKeyOk(row.canonicalKey)
         /\ Len(row.variants) >= 1
         /\ \A i \in 1..Len(row.variants) : ItemOk(row.variants[i], ValueMaxLen)
         /\ \A i \in 1..Len(MeaningsOrDefault(row)) :
               ItemOk(MeaningsOrDefault(row)[i], MeaningMaxLen)
         /\ ~HasDuplicate(vs)
         /\ ~HasDuplicate(ms),
       data |-> [canonicalKey |-> IF row.canonicalKey = None THEN None
                                  ELSE Some(Trim(row.canonicalKey[1])),
                 variants |-> vs, meanings |-> ms]]

\* BulkPublishSchema.safeParse
BulkPublishParse(body) ==
  [success |->
     /\ Len(body.rows) >= 1
     /\ Len(body.rows) <= RowsMaxLen
     /\ \A i \in 1..Len(body.rows) : NameRowParse(body.rows[i]).success,
   data |-> [rows |-> [i \in 1..Len(body.rows) |-> NameRowParse(body.rows[i]).data],
             dryRun |-> body.dryRun]]

\* coerceDryRun(req.query.dryRun, input.dryRun)
coerceDryRun(q, bodyDefault) ==
  IF q = None THEN bodyDefault
  ELSE IF q[1] \in {"true", "1", "yes"} THEN TRUE
  ELSE IF q[1] \in {"false", "0", "no"} THEN FALSE
  ELSE bodyDefault

NoInput == [rows |-> <<>>, dryRun |-> FALSE]

IdleHttp ==
  [pc |-> "idle", body |-> [rows |-> <<>>, dryRun |-> FALSE], query |-> None, user |-> None,
   input |-> NoInput, calls |-> 0, pre |-> [names |-> {}, variants |-> {}, meanings |-> {}],
   status |-> 0, summary |-> [inserted |-> 0, duplicates |-> 0, duplicateDetails |-> <<>>],
   audits |-> 0, audit |-> "none"]

\* the request reaches validateBody(BulkPublishSchema)
BulkPost(body, query, user) ==
  /\ http.pc \in {"idle", "responded"}
  /\ pub.pc \in {"idle", "done", "failed"}
  /\ pub.calls < MaxCalls
  /\ LET parsed == BulkPublishParse(body)
     IN  http' = IF parsed.success
                   THEN [IdleHttp EXCEPT !.pc = "validated", !.body = body, !.query = query,
                           !.user = user, !.input = parsed.data, !.calls = pub.calls,
                           !.pre = Snapshot, !.audits = http.audits]
                   ELSE [IdleHttp EXCEPT !.pc = "responded", !.body = body, !.query = query,
                           !.user = user, !.calls = pub.calls, !.pre = Snapshot,
                           !.status = 400, !.audits = http.audits]
  /\ UNCHANGED <<pool, readers, storageVars, useMv, now, codec, search, chain, pub, tx, race, langCache>>

\* line 57: bulkPublish(input.rows, {dryRun, source}) is called
BulkInvoke ==
  /\ http.pc = "validated"
  /\ pub.calls = http.calls
  /\ PublishCall(http.input.rows, coerceDryRun(http.query, http.input.dryRun))

\* `Number(req.user?.sub)`, the sub of the token as its text; NaN without
\* a user
UserIdOf(user) == IF user = None THEN NaN ELSE ToNumber(user[1])

\* an audit row for every publish that returned
AuditDue_Always(result, user) == TRUE

\* line 61: `!result.dryRun && Number.isFinite(userId)`
AuditDue(result, user) == ~result.dryRun /\ ~UserIdOf(user).nan

\* lines 59-98: bulkPublish returned or threw; the audit row, whose failure is
\* only logged; the summary, or the error handed to next()
BulkRespond(auditFails) ==
  /\ http.pc = "validated"
  /\ pub.calls > http.calls
  /\ pub.pc \in {"done", "failed"}
  /\ http' = IF pub.pc = "failed"
               THEN [http EXCEPT !.pc = "responded", !.status = 500]
               ELSE [http EXCEPT !.pc = "responded", !.status = 200,
                       !.summary = BulkSummary(pub.aggregate),
                       !.audits = IF AuditDue(pub.aggregate, http.user) /\ ~auditFails
                                    THEN @ + 1 ELSE @,
                       !.audit = IF ~AuditDue(pub.aggregate, http.user) THEN "none"
                                 ELSE IF auditFails THEN "failed" ELSE "written"]
  /\ UNCHANGED <<pool, readers, storageVars, useMv, now, codec, search, chain, pub, tx, race, langCache>>

RawRow(key, vs, ms) == [canonicalKey |-> key, variants |-> vs, meanings |-> ms]

\* request bodies: well formed, and with a pair twice among the variants or
\* the meanings of a row (also up to case and surrounding blanks)
Bodies ==
  {[rows |-> rows, dryRun |-> FALSE] :
     rows \in {<<RawRow(None, <<Pair("en", tMar)>>, Some(<<Pair("en", tX)>>))>>,
               <<RawRow(None, <<Pair("en", tMar), Pair("ta", tMar)>>, None)>>,
               <<RawRow(None, <<Pair("en", tMar), Pair("en", tMar)>>, None)>>,
               <<RawRow(None, <<Pair("en", tMar)>>, None),
                 RawRow(Some(<<"a">>), <<Pair("ta", tMa)>>,
                        Some(<<Pair("en", tX), Pair("ta", tY), Pair("en", tX)>>))>>,
               <<RawRow(None, <<Pair("en", tMar), Pair("en", <<"m", "a", "r", " ">>)>>, None)>>}}

QueryDryRun == {None, Some("true"), Some("maybe")}

\* no user on the request, a user whose sub is 1, a sub that is no number
Users == {None, Some(<<"1">>), Some(<<"x">>)}

(***************************************************************************)
(* Specifications.                                                         *)
(***************************************************************************)
IdleInit ==
  /\ languages = Languages
  /\ now = 0
  /\ codec = IdleCodec
  /\ search = IdleSearch
  /\ chain = IdleChain
  /\ pub = IdlePub
  /\ tx = NoTx
  /\ race = IdleRace
  /\ langCache = IdleLang
  /\ http = IdleHttp
  /\ readers = IdleReaders
  /\ pool = IdlePool

EmptyStorage ==
  /\ names = {}
  /\ variants = {}
  /\ meanings = {}
  /\ mv = {}
  /\ nameSeq = 0

\* the bulk publish pipeline, from empty tables
Init ==
  /\ IdleInit
  /\ EmptyStorage
  /\ useMv = FALSE

Next ==
  \/ \E rows \in Batches, dryRun \in BOOLEAN : PublishCall(rows, dryRun)
  \/ PublishOpen
  \/ PublishEnsureName
  \/ PublishUpsertVariants
  \/ PublishUpsertMeanings
  \/ PublishCommit
  \/ PublishDryRunRollback
  \/ PublishStorageError
  \/ Tick

Spec == Init /\ [][Next]_vars

\* searches of either read path over tables that stay as they are
InitSearch ==
  /\ IdleInit
  /\ useMv \in BOOLEAN
  /\ \E n \in 1..MaxNames : \E prof \in [1..n -> Profiles] :
       /\ names = NamesOf(prof)
       /\ variants = VariantsOf(prof)
       /\ meanings = MeaningsOf(prof)
       /\ mv = RefreshedMV(NamesOf(prof), VariantsOf(prof), MeaningsOf(prof))
       /\ nameSeq = n

NextSearch ==
  \/ \E text \in SearchTexts, lang \in LangCodes, limit \in 1..MaxPageSize :
       SearchFirst(text, lang, limit)
  \/ SearchNext
  \/ \E text \in SearchTexts, lang \in LangCodes, limit \in 1..MaxPageSize,
        page \in 1..MaxPage, cursor \in SearchTokens :
       SearchAny(text, lang, limit, page, cursor)
  \/ SearchReturn

SpecSearch == InitSearch /\ [][NextSearch]_vars

\* two concurrent bulk publish calls, on empty tables or with the name a stored
InitRace ==
  /\ IdleInit
  /\ useMv = FALSE
  /\ variants = {}
  /\ meanings = {}
  /\ mv = {}
  /\ names \in {{}, {[id |-> 1, canonical_key |-> <<"a">>, updated_at |-> 0]}}
  /\ nameSeq = Cardinality(names)

NextRace ==
  \/ \E p \in Callers, rows \in RaceBatches : RaceCall(p, rows)
  \/ \E p \in Callers : RaceOpen(p)
  \/ \E p \in Callers : RaceEnsureName(p)
  \/ \E p \in Callers : RaceUpsertVariants(p)
  \/ \E p \in Callers : RaceUpsertMeanings(p)
  \/ \E p \in Callers : RaceCommit(p)
  \/ \E p \in Callers : RaceStorageError(p)
  \/ \E p \in Callers : RaceDeadlock(p)

SpecRace == InitRace /\ [][NextRace]_vars

\* the language cache, with searches and publishes that wait for it, over one
\* stored name and a languages table that changes from outside
InitLang ==
  /\ now = 0
  /\ codec = IdleCodec
  /\ search = IdleSearch
  /\ chain = IdleChain
  /\ pub = IdlePub
  /\ tx = NoTx
  /\ race = IdleRace
  /\ langCache = IdleLang
  /\ http = IdleHttp
  /\ readers = IdleReaders
  /\ pool = IdlePool
  /\ languages \in LocaleSets
  /\ useMv = FALSE
  /\ LET prof == <<[variants |-> {<<"en", tMar>>}, meanings |-> {<<"en", tX>>}]>>
     IN  /\ names = NamesOf(prof)
         /\ variants = VariantsOf(prof)
         /\ meanings = MeaningsOf(prof)
         /\ mv = RefreshedMV(NamesOf(prof), VariantsOf(prof), MeaningsOf(prof))
         /\ nameSeq = 1

NextLang ==
  \/ LangGet
  \/ LangLoad
  \/ LangReturn
  \/ LangRefresh
  \/ LangClear
  \/ \E ttlMs \in 0..2 : LangConfigure(ttlMs)
  \/ \E rows \in LocaleSets : LocaleProvision(rows)
  \/ \E input \in LangRequests : LangSearchCall(input)
  \/ LangSearchResume
  \/ SearchReturn
  \/ \E rows \in LangBatches, dryRun \in BOOLEAN : LangPublishCall(rows, dryRun)
  \/ LangPublishResume
  \/ PublishOpen
  \/ PublishEnsureName
  \/ PublishUpsertVariants
  \/ PublishUpsertMeanings
  \/ PublishCommit
  \/ PublishDryRunRollback
  \/ PublishStorageError
  \/ Tick

SpecLang == InitLang /\ [][NextLang]_vars

\* getLangMap, refreshLangMap, clearLanguageCache and configureLanguageCache
\* called while loads of the mapping are in flight
InitReaders ==
  /\ IdleInit
  /\ EmptyStorage
  /\ useMv = FALSE

NextReaders ==
  \/ \E p \in Callers : ReaderGet(p)
  \/ \E p \in Callers : ReaderRefresh(p)
  \/ \E p \in Callers : ReaderQuery(p)
  \/ \E p \in Callers : ReaderStore(p)
  \/ ReaderClear
  \/ \E ttlMs \in TtlInputs : ReaderConfigure(ttlMs)
  \/ \E rows \in LocaleSets : ReaderProvision(rows)
  \/ Tick

SpecReaders == InitReaders /\ [][NextReaders]_vars

\* withTransaction called by two callers over the pool
InitTx ==
  /\ IdleInit
  /\ EmptyStorage
  /\ useMv = FALSE

NextTx ==
  \/ \E p \in Callers : TxCall(p)
  \/ \E p \in Callers, ok \in BOOLEAN : TxConnect(p, ok)
  \/ \E p \in Callers, ok \in BOOLEAN : TxBegin(p, ok)
  \/ \E p \in Callers, ok \in BOOLEAN : TxCallback(p, ok)
  \/ \E p \in Callers, ok \in BOOLEAN : TxCommit(p, ok)
  \/ \E p \in Callers, ok \in BOOLEAN : TxRollback(p, ok)
  \/ \E p \in Callers : TxRelease(p)

SpecTx == InitTx /\ [][NextTx]_vars

\* POST /names/bulk in front of the pipeline, from empty tables
InitBulk ==
  /\ IdleInit
  /\ EmptyStorage
  /\ useMv = FALSE

NextBulk ==
  \/ \E body \in Bodies, query \in QueryDryRun, user \in Users :
       BulkPost(body, query, user)
  \/ BulkInvoke
  \/ \E auditFails \in BOOLEAN : BulkRespond(auditFails)
  \/ PublishOpen
  \/ PublishEnsureName
  \/ PublishUpsertVariants
  \/ PublishUpsertMeanings
  \/ PublishCommit
  \/ PublishDryRunRollback
  \/ PublishStorageError
  \/ Tick

SpecBulk == InitBulk /\ [][NextBulk]_vars

\* searches and bulk publishes side by side, over one stored name
CoreBatches == {<<rowMar>>, <<rowKeyed>>}

InitCore ==
  /\ IdleInit
  /\ useMv = FALSE
  /\ mv = {}
  /\ LET prof == <<[variants |-> {<<"en", tMar>>}, meanings |-> {<<"en", tX>>}]>>
     IN  /\ names = NamesOf(prof)
         /\ variants = VariantsOf(prof)
         /\ meanings = MeaningsOf(prof)
         /\ nameSeq = 1

NextCore ==
  \/ \E lang \in {"en", "ta"} : SearchFirst(<<"M", "a">>, lang, 1)
  \/ SearchNext
  \/ \E cursor \in {None, Some(encodeCursor(1))} : SearchAny(<<"M", "a">>, "en", 1, 2, cursor)
  \/ SearchReturn
  \/ \E rows \in CoreBatches, dryRun \in BOOLEAN : PublishCall(rows, dryRun)
  \/ PublishOpen
  \/ PublishEnsureName
  \/ PublishUpsertVariants
  \/ PublishUpsertMeanings
  \/ PublishCommit
  \/ PublishDryRunRollback
  \/ PublishStorageError
  \/ Tick

SpecCore == InitCore /\ [][NextCore]_vars

\* the cursor codec
InitCodec ==
  /\ IdleInit
  /\ EmptyStorage
  /\ useMv = FALSE

NextCodec ==
  \/ \E n \in 1..MaxCursorId : CodecEncode(n)
  \/ CodecDecodeEncoded
  \/ \E c \in CodecTokens : CodecDecode(c)
  \/ CodecReturn

SpecCodec == InitCodec /\ [][NextCodec]_vars

(***************************************************************************)
(* Properties of the cursor codec (SpecCodec).                             *)
(***************************************************************************)
\* C8: for every positive integer n, decodeCursor(encodeCursor(n)) = n.
C8_RoundTrip ==
  (codec.op = "decode" /\ codec.roundTrip) => codec.out = Some(IntNum(codec.n))

\* a four-digit id, whose token ends in padding, has gone through both calls
C8_Witness ==
  /\ codec.op = "decode" /\ codec.roundTrip
  /\ codec.n = 1000
  /\ codec.token = Some(<<"M", "T", "A", "w", "M", "A", "=", "=">>)

\* C9: decodeCursor returns no cursor for a token that is absent, empty,
\* malformed or whose decoded text is not a positive integer; what it returns
\* otherwise is a positive integer.
C9_OnlyPositiveIntegers ==
  codec.op = "decode" =>
    /\ (codec.token = None \/ codec.token = Some(<<>>)) => codec.out = None
    /\ codec.out # None => (IsInteger(codec.out[1]) /\ codec.out[1].num > 0)

(***************************************************************************)
(* Properties of search (SpecSearch).                                      *)
(***************************************************************************)
\* the ids of the names that match a request, on the read path in use
MatchSet(input) ==
  IF useMv THEN MatchesMV(ToLower(input.searchText))
  ELSE MatchesNormalized(LangIdOf(input.lang), input.searchText)

Max(S) == CHOOSE x \in S : \A y \in S : y <= x

\* C1: the pages of a sequence chained by nextCursor, from a request without
\* cursor for page 1 to the response without nextCursor, together hold every
\* matching name once, in ascending id order.
C1_ChainIsMatchSet ==
  (chain.active /\ search.valid /\ search.resp.nextCursor = None)
    => chain.ids = SortInts(MatchSet(search.req))

\* C6: without a valid cursor and with page p > 1 the names returned are
\* those at positions (p-1)*L .. (p-1)*L + L - 1 of the ascending match set,
\* and none when (p-1)*L is at or beyond the number of matches.
C6_OffsetPage ==
  (search.valid /\ decodeCursor(search.req.cursor) = None /\ search.req.page > 1)
    => SeqToSet(search.ids)
         = SeqToSet(LimitOffset(SortInts(MatchSet(search.req)), search.req.pagePerRecord,
                                (search.req.page - 1) * search.req.pagePerRecord))

\* the page returned reaches the end of the match set
IsLastPage ==
  /\ search.ids # <<>>
  /\ \A id \in MatchSet(search.req) : id <= search.ids[Len(search.ids)]

C10_CursorPrecedence ==
  (search.valid /\ decodeCursor(search.req.cursor) # None)
    => /\ \A p \in 1..MaxPage :
            Paged(Outcome(search.error, search.resp, search.ids, search.queries),
                  search.cursorId, search.page)
              \in searchNames([search.req EXCEPT !.page = p])
       /\ \A i \in 1..Len(search.queries) :
            search.queries[i] \notin {"deriveCursorIdMV", "deriveCursorIdNormalized"}
       /\ \A i \in 1..Len(search.ids) :
            /\ search.ids[i] > decodeCursor(search.req.cursor)[1].num
            /\ search.ids[i] \in MatchSet(search.req)

\* a request for a later page with a cursor has been answered with names
C10_Witness ==
  /\ search.valid
  /\ decodeCursor(search.req.cursor) # None
  /\ search.req.page > 1
  /\ search.ids # <<>>
  /\ \E id \in MatchSet(search.req) : id <= decodeCursor(search.req.cursor)[1].num

(***************************************************************************)
(* Properties of bulk publish (Spec).                                      *)
(***************************************************************************)
\* C2: a call with dryRun = true leaves names, variants and meanings as they
\* were before the call, and so the totalCount of every search.
C2_DryRunNoEffect ==
  (pub.pc = "done" /\ pub.dryRun)
    => /\ Snapshot = pub.pre
       /\ MatchCounts = pub.preCounts

\* a dry run that inserted a name, variants and meanings has returned
C2_Witness ==
  /\ pub.pc = "done" /\ pub.dryRun
  /\ pub.aggregate.totals.variantsInserted > 0
  /\ pub.aggregate.totals.meaningsInserted > 0

\* C3: a call that is not a dry run and fails on a storage error leaves
\* nothing that any of its rows wrote.
C3_FailedCallNoEffect ==
  (pub.pc = "failed" /\ ~pub.dryRun) => Snapshot = pub.pre

\* a call has failed after a row had been processed with inserts
C3_Witness ==
  /\ pub.pc = "failed" /\ ~pub.dryRun
  /\ Len(pub.aggregate.rows) >= 1
  /\ pub.aggregate.rows[1].variants.inserted > 0

RECURSIVE SumLen(_, _)
SumLen(rows, field) ==
  IF rows = <<>> THEN 0 ELSE Len(Head(rows)[field]) + SumLen(Tail(rows), field)

\* the names without their update timestamp
NameKeys(ns) == {[id |-> n.id, canonical_key |-> n.canonical_key] : n \in ns}

\* C4: the second of two identical publishes, neither a dry run, reports no
\* insert and every variant and meaning as duplicate, and changes nothing.
C4_SecondPublish ==
  (pub.pc = "done" /\ ~pub.dryRun /\ pub.prev.valid /\ pub.prev.pc = "done"
     /\ ~pub.prev.dryRun /\ pub.prev.rows = pub.rows)
    => /\ pub.aggregate.totals.variantsInserted = 0
       /\ pub.aggregate.totals.variantsDuplicates = SumLen(pub.rows, "variants")
       /\ BulkSummary(pub.aggregate).inserted = 0
       /\ BulkSummary(pub.aggregate).duplicates
            = SumLen(pub.rows, "variants") + SumLen(pub.rows, "meanings")
       /\ NameKeys(names) = NameKeys(pub.pre.names)
       /\ variants = pub.pre.variants
       /\ meanings = pub.pre.meanings

\* the (language_id, value) pairs of a reported list of duplicates
DupPairs(dups) == {<<pub.langIdMap[dups[i].language], dups[i].value>> : i \in 1..Len(dups)}

SubmittedPairs(list) == {<<pub.langIdMap[list[i].lang], list[i].value>> : i \in 1..Len(list)}

\* C5: the duplicates reported for a row are the submitted pairs that the
\* name had before the row was upserted, as many as submitted minus inserted.
C5_DuplicatesExistedBefore ==
  \A i \in 1..Len(pub.aggregate.rows) :
    LET r == pub.aggregate.rows[i]
        sub == pub.rows[i]
    IN  /\ DupPairs(r.variants.duplicates)
             = SubmittedPairs(sub.variants) \cap pub.before[i].variants
        /\ DupPairs(r.meanings.duplicates)
             = SubmittedPairs(sub.meanings) \cap pub.before[i].meanings
        /\ Len(r.variants.duplicates) = Len(sub.variants) - r.variants.inserted
        /\ Len(r.meanings.duplicates) = Len(sub.meanings) - r.meanings.inserted

(***************************************************************************)
(* More properties of search (SpecSearch).                                 *)
(***************************************************************************)
\* the queries that read a page of names
PageQueries == {"pageIdsNormalized", "fetchAggregatedByIds", "pageDataMV"}

\* C11: a search whose totalCount is 0 answers with no results and no
\* nextCursor, on either read path, and issues no page query.
C11_NothingMatches ==
  (search.valid /\ ~search.error /\ search.resp.totalCount = 0)
    => /\ search.resp.getNames = <<>>
       /\ search.resp.nextCursor = None
       /\ \A i \in 1..Len(search.queries) : search.queries[i] \notin PageQueries

\* a request for a later page, over tables that hold names, has matched nothing
C11_Witness ==
  /\ search.valid /\ ~search.error
  /\ search.resp.totalCount = 0
  /\ search.req.page > 1
  /\ names # {}

\* sub occurs in t
Contains(t, sub) ==
  \E i \in 0..(Len(t) - Len(sub)) : SubSeq(t, i + 1, i + Len(sub)) = sub

\* the names with a variant in the locale that contains the text, taken as
\* a literal and without regard to case
LiteralVariantMatches(input) ==
  {v.name_id : v \in {w \in variants :
                        /\ w.language_id = LangIdOf(input.lang)
                        /\ Contains(ToLower(w.variant_name), ToLower(input.searchText))}}

\* the same for the search blob of the denormalized rows
LiteralBlobMatches(input) ==
  {r.name_id : r \in {w \in mv : Contains(ToLower(w.search_blob), ToLower(input.searchText))}}

\* C12: totalCount is the number of distinct names that match (searchText,
\* locale), whatever the cursor, page and pageSize of the request.
C12_TotalCountOfSearch ==
  (search.valid /\ ~search.error)
    => search.resp.totalCount
         = Cardinality(IF useMv THEN LiteralBlobMatches(search.req)
                       ELSE LiteralVariantMatches(search.req))

\* totalCount is the same for every cursor, page and pageSize: it is the
\* size of the set the count query of the read path selects
TotalCountIgnoresWindow ==
  (search.valid /\ ~search.error)
    => search.resp.totalCount = Cardinality(MatchSet(search.req))

\* C13: on the normalized path the names counted and returned are those with
\* a variant in the requested locale that contains the search text as a
\* literal, case-insensitive substring.
C13_LiteralSubstring ==
  (search.valid /\ ~search.error /\ ~useMv)
    => /\ search.resp.totalCount = Cardinality(LiteralVariantMatches(search.req))
       /\ SeqToSet(search.ids) \subseteq LiteralVariantMatches(search.req)
       /\ (search.req.cursor = None /\ search.req.page = 1
             /\ Cardinality(LiteralVariantMatches(search.req)) <= search.req.pagePerRecord)
            => LiteralVariantMatches(search.req) \subseteq SeqToSet(search.ids)

\* the meanings a name has in a locale
MeaningsIn(nameId, code) ==
  {m.meaning : m \in {w \in meanings : w.name_id = nameId /\ w.language_id = LangIdOf(code)}}

\* C14: the description of a result is a meaning of the name in the
\* requested locale if it has one, otherwise an English meaning if it has
\* one, otherwise the empty string; it is never null.
C14_Description ==
  (search.valid /\ ~search.error)
    => /\ Len(search.resp.getNames) = Len(search.ids)
       /\ \A i \in 1..Len(search.ids) :
            LET d == search.resp.getNames[i].description
                req == MeaningsIn(search.ids[i], search.req.lang)
                en == MeaningsIn(search.ids[i], "en")
            IN  /\ d # None
                /\ IF req # {} THEN d[1] \in req
                   ELSE IF en # {} THEN d[1] \in en
                   ELSE d[1] = <<>>

\* a result has fallen back to the English meaning on the normalized path
C14_Witness ==
  /\ search.valid /\ ~search.error /\ ~useMv
  /\ search.req.lang # "en"
  /\ \E i \in 1..Len(search.ids) :
       /\ MeaningsIn(search.ids[i], search.req.lang) = {}
       /\ MeaningsIn(search.ids[i], "en") # {}
       /\ search.resp.getNames[i].description = Some(tX)

\* the variants a name has in a locale
VariantsIn(nameId, code) ==
  {v.variant_name : v \in {w \in variants : w.name_id = nameId /\ w.language_id = LangIdOf(code)}}

\* a list of strings: no element is null
IsListOfStrings(x) == x # None /\ \A i \in 1..Len(x[1]) : x[1][i] # None

Breakdown(agg) ==
  [i \in 1..Len(agg.rows) |->
     [index |-> agg.rows[i].index, canonicalKey |-> agg.rows[i].canonicalKey,
      variants |-> agg.rows[i].variants, meanings |-> agg.rows[i].meanings]]

C17_DryRunReturns ==
  /\ [](pub.pc = "done" => pub.aggregate.dryRun = pub.dryRun)
  /\ [][(pub.pc = "finish" /\ pub.dryRun /\ pub' # pub)
          => (pub'.pc = "done" /\ pub'.aggregate.dryRun)]_vars

\* a dry run of two rows has returned
C17_Witness ==
  /\ pub.pc = "done" /\ pub.dryRun
  /\ pub.aggregate.dryRun
  /\ Len(pub.aggregate.rows) = 2

\* no two rows of the table have the same (name_id, language_id, value)
UniqueTriples(table, field) ==
  \A r, q \in table :
    (r.name_id = q.name_id /\ r.language_id = q.language_id /\ r[field] = q[field]) => r = q

\* C18: the (nameId, localeId, value) triple is unique among variants and
\* among meanings; a submitted triple that exists leaves the stored row as
\* it is and is counted as a duplicate.
C18_UniqueTriples ==
  /\ UniqueTriples(variants, "variant_name")
  /\ UniqueTriples(meanings, "meaning")
  /\ tx.open => /\ UniqueTriples(tx.variants, "variant_name")
                /\ UniqueTriples(tx.meanings, "meaning")
                /\ pub.pre.variants \subseteq tx.variants
                /\ pub.pre.meanings \subseteq tx.meanings
  /\ pub.pc = "finish"
       => /\ pub.aggregate.totals.variantsInserted
               = Cardinality(tx.variants) - Cardinality(pub.pre.variants)
          /\ pub.aggregate.totals.meaningsInserted
               = Cardinality(tx.meanings) - Cardinality(pub.pre.meanings)
          /\ pub.aggregate.totals.variantsInserted + pub.aggregate.totals.variantsDuplicates
               = SumLen(pub.rows, "variants")
          /\ pub.aggregate.totals.meaningsInserted + pub.aggregate.totals.meaningsDuplicates
               = SumLen(pub.rows, "meanings")

\* rows whose variants and meanings were all stored have been submitted again
C18_Witness ==
  /\ pub.pc = "finish"
  /\ pub.pre.variants # {} /\ pub.pre.meanings # {}
  /\ pub.aggregate.totals.variantsInserted = 0
  /\ pub.aggregate.totals.variantsDuplicates > 0
  /\ pub.aggregate.totals.meaningsDuplicates > 0

\* C20: the result of a call that returns has one entry per input row, in
\* input order: the entry at position i has index i (counted from 0) and
\* the canonical key, the name and the pairs of input row i; totals.rows
\* and totals.namesEnsured are the number of input rows.
C20_RowsInOrder ==
  pub.pc = "done"
    => /\ Len(pub.aggregate.rows) = Len(pub.rows)
       /\ pub.aggregate.totals.rows = Len(pub.rows)
       /\ pub.aggregate.totals.namesEnsured = Len(pub.rows)
       /\ \A i \in 1..Len(pub.aggregate.rows) :
            LET e == pub.aggregate.rows[i]
                sub == pub.rows[i]
            IN  /\ e.index = i - 1
                /\ e.canonicalKey \in {CanonicalKeyOf(sub, t) : t \in 0..MaxClock}
                /\ ~pub.dryRun
                     => [id |-> e.nameId, canonical_key |-> e.canonicalKey] \in NameKeys(names)
                /\ e.variants.inserted <= Len(sub.variants)
                /\ e.meanings.inserted <= Len(sub.meanings)
                /\ DupPairs(e.variants.duplicates) \subseteq SubmittedPairs(sub.variants)
                /\ DupPairs(e.meanings.duplicates) \subseteq SubmittedPairs(sub.meanings)

\* a publish of two rows with different keys has returned
C20_Witness ==
  /\ pub.pc = "done" /\ ~pub.dryRun
  /\ Len(pub.aggregate.rows) = 2
  /\ pub.aggregate.rows[1].canonicalKey # pub.aggregate.rows[2].canonicalKey


(***************************************************************************)
(* Properties of concurrent bulk publish calls (SpecRace).                 *)
(***************************************************************************)
\* the canonical keys the rows of caller p resolve to
KeysReferenced(p) ==
  {CanonicalKeyOf(race[p].rows[i], now) : i \in 1..Len(race[p].rows)}

SharedKeys == KeysReferenced(1) \cap KeysReferenced(2)

\* the nameId values caller p reports for a key
ReportedIds(p, canonicalKey) ==
  {race[p].aggregate.rows[i].nameId :
     i \in {j \in 1..Len(race[p].aggregate.rows) :
              race[p].aggregate.rows[j].canonicalKey = canonicalKey}}

BothDone == \A p \in Callers : race[p].pc = "done"

\* a key both calls reference is resolved: one stored name, one reported id
Resolved(canonicalKey) ==
  /\ Cardinality({n \in names : n.canonical_key = canonicalKey}) = 1
  /\ Cardinality(ReportedIds(1, canonicalKey)) = 1
  /\ ReportedIds(1, canonicalKey) = ReportedIds(2, canonicalKey)

\* C19: for two concurrent non-dry-run bulkPublish calls that reference the
\* same canonical key, neither call fails because of the other one, and once
\* both have completed there is exactly one Name row with that key and both
\* calls report the same nameId for it.
C19_SameKeyRace ==
  SharedKeys # {} =>
    /\ \A p \in Callers : race[p].cause # "deadlock"
    /\ BothDone => \A canonicalKey \in SharedKeys : Resolved(canonicalKey)

\* the same for calls that have exactly one key in common
OneSharedKeyResolved ==
  Cardinality(SharedKeys) = 1 =>
    /\ \A p \in Callers : race[p].cause # "deadlock"
    /\ BothDone => \A canonicalKey \in SharedKeys : Resolved(canonicalKey)


(***************************************************************************)
(* Properties of the language cache (SpecLang).                            *)
(***************************************************************************)
\* the mapping has an id for each of en, ta, fr
CompleteMap(map) == \A c \in LangCodes : map[c] # 0

\* the call in progress or last made reloaded, and the reload failed
LoadFailed == langCache.loads > 0 /\ ~langCache.out.ok

SearchQueries ==
  {"deriveCursorIdMV", "deriveCursorIdNormalized", "countMatchesMV", "pageDataMV",
   "countMatchesNormalized", "pageIdsNormalized", "fetchAggregatedByIds"}

\* C21: when one of en, ta, fr is absent from storage at the reload, getLangMap
\* fails; the cache is always empty or a complete three-locale mapping; and a
\* search or bulkPublish call that depended on the failed reload fails, the
\* search without a search query and the publish without a transaction.
C21_FailsClosed ==
  /\ [](langCache.cache = None \/ CompleteMap(langCache.cache[1]))
  /\ [](langCache.loads > 0 /\ ~CompleteMap(langCache.out.map) => ~langCache.out.ok)
  /\ []((LoadFailed /\ langCache.caller = "search" /\ search.valid)
          => (search.error /\ \A i \in 1..Len(search.queries) :
                                 search.queries[i] \notin SearchQueries))
  /\ [][(/\ LoadFailed /\ langCache.pc = "return" /\ langCache.caller = "publish"
          /\ langCache' # langCache)
          => (/\ pub'.pc = "failed"
              /\ ~tx.open /\ tx' = tx
              /\ <<names, variants, meanings, nameSeq>>' = <<names, variants, meanings, nameSeq>>)]_vars

\* a search and a publish have failed on a reload that found a locale missing
C21_Witness ==
  /\ LoadFailed
  /\ langCache.pc = "idle"
  /\ langCache.caller = "search" /\ search.valid /\ search.error
  /\ pub.pc = "failed" /\ pub.before = <<>>
  /\ langCache.cache # None

\* C22: getLangMap serves the cached mapping without a query exactly when a
\* mapping is cached and the time at the start of the call is before the
\* expiry; otherwise it reloads once, and a reload that succeeds is stored
\* with the expiry at the call's start time plus the configured TTL.
C22_CacheTtl ==
  langCache.pc = "return" =>
    /\ langCache.loads = 0
         <=> (langCache.was.cache # None /\ langCache.t0 < langCache.was.cacheExp)
    /\ langCache.loads = 0 =>
         /\ langCache.out = [ok |-> TRUE, map |-> langCache.was.cache[1]]
         /\ langCache.cache = langCache.was.cache
         /\ langCache.cacheExp = langCache.was.cacheExp
    /\ langCache.loads # 0 =>
         /\ langCache.loads = 1
         /\ langCache.out.ok =>
              /\ langCache.cache = Some(langCache.out.map)
              /\ langCache.cacheExp = langCache.t0 + langCache.ttl

\* a reload at the expiry of a cached mapping
C22_Witness ==
  /\ langCache.pc = "return"
  /\ langCache.loads = 1 /\ langCache.out.ok
  /\ langCache.was.cache # None /\ langCache.t0 = langCache.was.cacheExp

\* a call served from the cache
CacheHit ==
  /\ langCache.pc = "return"
  /\ langCache.loads = 0


(***************************************************************************)
(* Properties of POST /names/bulk (SpecBulk).                              *)
(***************************************************************************)
\* the same (locale, value) pair occurs twice in the list, as submitted
PairTwice(items) ==
  \E i \in 1..Len(items) : \E j \in 1..(i - 1) :
     items[i].lang = items[j].lang /\ items[i].value = items[j].value

\* some row of the body has a pair twice among its variants or its meanings
BodyHasPairTwice(body) ==
  \E i \in 1..Len(body.rows) :
     PairTwice(body.rows[i].variants) \/ PairTwice(MeaningsOrDefault(body.rows[i]))

\* C23: a bulk request in which a row has the same (locale, value) pair twice
\* among its variants, or twice among its meanings, is answered with a
\* validation error; bulkPublish is not invoked and storage stays as it was.
C23_DuplicatePairsRejected ==
  (http.pc # "idle" /\ BodyHasPairTwice(http.body)) =>
    /\ http.pc = "responded"
    /\ http.status = 400
    /\ pub.calls = http.calls
    /\ Snapshot = http.pre
    /\ ~tx.open

\* a request with a meaning twice in its second row was rejected after an
\* earlier request had been published
C23_Witness ==
  /\ http.pc = "responded"
  /\ http.status = 400
  /\ Len(http.body.rows) = 2
  /\ PairTwice(MeaningsOrDefault(http.body.rows[2]))
  /\ names # {}


(***************************************************************************)
(* Properties of search and bulk publish side by side (SpecCore).          *)
(***************************************************************************)
\* every name is still stored with its id and key, every variant and meaning
\* row is still stored as it was
NothingDeleted ==
  /\ \A n \in names : \E k \in names' : k.id = n.id /\ k.canonical_key = n.canonical_key
  /\ variants \subseteq variants'
  /\ meanings \subseteq meanings'

\* C24: names, variants and meanings change only at the commit of a
\* non-dry-run bulkPublish call; a search changes none of them, no step
\* deletes a name, a variant or a meaning, and the locale table is never
\* written.
C24_OnlyCommittedPublishWrites ==
  [][/\ languages' = languages
     /\ NothingDeleted
     /\ search' # search => UNCHANGED <<pool, readers, names, variants, meanings>>
     /\ <<names, variants, meanings>>' # <<names, variants, meanings>>
          => (pub.pc = "finish" /\ ~pub.dryRun /\ pub'.pc = "done")]_vars

\* a search has been answered after a publish added rows to the stored name
C24_Witness ==
  /\ search.valid
  /\ pub.pc = "done" /\ ~pub.dryRun
  /\ Cardinality(meanings) > Cardinality(pub.pre.meanings)
  /\ Cardinality(names) > 1


(***************************************************************************)
(* Properties of the page contents (SpecSearch).                           *)
(***************************************************************************)
\* C25: a page that is not empty comes with the cursor of its last row, which
\* is the row with the largest id of the page; nextCursor is null exactly
\* when the page is empty.
C25_CursorOfLastRow ==
  (search.valid /\ ~search.error) =>
    /\ search.resp.nextCursor = None <=> search.resp.getNames = <<>>
    /\ Len(search.ids) = Len(search.resp.getNames)
    /\ search.resp.getNames # <<>> =>
         /\ search.ids[Len(search.ids)] = Max(SeqToSet(search.ids))
         /\ search.resp.nextCursor = Some(encodeCursor(Max(SeqToSet(search.ids))))

\* a page of two names of the denormalized path, and its cursor
C25_Witness ==
  /\ search.valid /\ useMv
  /\ Len(search.resp.getNames) = 2
  /\ search.ids[1] < search.ids[2]
  /\ search.resp.nextCursor = Some(encodeCursor(search.ids[2]))


\* the page query of the normalized path has run for the request
PageQueried ==
  /\ search.valid /\ ~search.error /\ ~useMv
  /\ \E i \in 1..Len(search.queries) : search.queries[i] = "pageIdsNormalized"

\* the matching ids the page may hold: those above the cursor id, or all
Eligible ==
  {id \in MatchSet(search.req) : search.cursorId = None \/ id > search.cursorId[1]}

\* C26: pageIdsNormalized returns at most limit ids, distinct and in
\* ascending order, each matching and above cursorId (from the smallest
\* matching id when cursorId is null), and they are the smallest such ids:
\* an eligible id that is not returned lies above the last id of a full page.
C26_KeysetPage ==
  PageQueried =>
    /\ Len(search.page) <= search.req.pagePerRecord
    /\ \A i, j \in 1..Len(search.page) : i < j => search.page[i] < search.page[j]
    /\ SeqToSet(search.page) \subseteq Eligible
    /\ \A id \in Eligible \ SeqToSet(search.page) :
          /\ Len(search.page) = search.req.pagePerRecord
          /\ id > search.page[Len(search.page)]

\* a full page above a cursor id that itself matches, with a matching name
\* left for the next page
C26_Witness ==
  /\ PageQueried
  /\ search.cursorId # None
  /\ search.cursorId[1] \in MatchSet(search.req)
  /\ Len(search.page) = search.req.pagePerRecord
  /\ Eligible \ SeqToSet(search.page) # {}


\* C27: fetchAggregatedByIds returns one row per id of the page, in ascending
\* id order, whatever meanings the names have; so a response of the
\* normalized path holds at most pageSize results, one per page id.
C27_OneRowPerId ==
  (PageQueried /\ search.page # <<>>) =>
    /\ search.ids = search.page
    /\ Len(search.resp.getNames) <= search.req.pagePerRecord


\* the token is present and its text is not a number above zero
IsNoCursorToken(c) ==
  /\ c # None
  /\ \/ c[1] = <<>>
     \/ ToNumber(Utf8Text(Base64Decode(c[1]))).nan
     \/ ToNumber(Utf8Text(Base64Decode(c[1]))).num <= 0

DeriveQueries == {"deriveCursorIdMV", "deriveCursorIdNormalized"}

\* C28: a request whose cursor is present but decodes to no cursor is
\* answered as the same request without cursor is: without error, from the
\* first match when page = 1, and from the offset-derived cursor when page > 1.
C28_InvalidCursorIgnored ==
  (search.valid /\ IsNoCursorToken(search.req.cursor)) =>
    /\ ~search.error
    /\ Paged(Outcome(search.error, search.resp, search.ids, search.queries),
             search.cursorId, search.page)
         \in searchNames([search.req EXCEPT !.cursor = None])
    /\ search.req.page = 1 =>
         /\ \A i \in 1..Len(search.queries) : search.queries[i] \notin DeriveQueries
         /\ search.ids # <<>> => search.ids[1] = SortInts(MatchSet(search.req))[1]
    /\ search.req.page > 1 => search.queries[1] \in DeriveQueries

\* a request for a later page with a cursor that decodes to none was answered
\* with names past the first match
C28_Witness ==
  /\ search.valid /\ IsNoCursorToken(search.req.cursor)
  /\ search.req.page > 1
  /\ search.ids # <<>>
  /\ search.ids[1] > SortInts(MatchSet(search.req))[1]


(***************************************************************************)
(* Properties of the canonical key (Spec).                                 *)
(***************************************************************************)
\* the row comes with a key that is not blank
KeyProvided(row) == row.canonicalKey # None /\ Trim(row.canonicalKey[1]) # <<>>

\* the value the key is to be derived from: that of the English variant when
\* the row has one, else that of the first variant
PrimaryValues(row) ==
  IF \E i \in 1..Len(row.variants) : row.variants[i].lang = "en"
    THEN {row.variants[i].value : i \in {j \in 1..Len(row.variants) : row.variants[j].lang = "en"}}
    ELSE {row.variants[1].value}

\* the keys a derivation from the value can give: the normalized value, or
\* when that is empty a key made of the clock reading
DerivedKeys(value) ==
  IF KeyOfValue(value) # <<>> THEN {KeyOfValue(value)}
  ELSE {TimestampKey(t) : t \in 0..MaxClock}

\* C29: the key used for a row is the provided key, trimmed, when one is
\* provided and not blank, and otherwise a key derived from the value of the
\* row's English variant, or of its first variant when it has no English one.
C29_KeySource ==
  \A i \in 1..Len(pub.aggregate.rows) :
     LET row == pub.rows[i]
         used == pub.aggregate.rows[i].canonicalKey
     IN  IF KeyProvided(row)
           THEN used = Trim(row.canonicalKey[1])
           ELSE \E value \in PrimaryValues(row) : used \in DerivedKeys(value)

\* a call is done with a row without key whose English variant comes second,
\* and one with a row that brought its key
C29_Witness ==
  /\ pub.pc = "done" /\ pub.prev.valid /\ pub.prev.pc = "done"
  /\ \E i \in 1..Len(pub.rows) :
        /\ ~KeyProvided(pub.rows[i])
        /\ pub.rows[i].variants[1].lang # "en"
        /\ pub.aggregate.rows[i].canonicalKey = <<"m", "a", "r">>
  /\ \E i \in 1..Len(pub.prev.rows) :
        /\ KeyProvided(pub.prev.rows[i])
        /\ pub.prev.aggregate.rows[i].canonicalKey = <<"a", "b">>



\* C30: the canonical key is a stable idempotency key: a row published in two
\* separate calls, neither a dry run, resolves in both to the same canonical
\* key and to the same name (nameId), whatever the row.
C30_StableKey ==
  (pub.pc = "done" /\ ~pub.dryRun /\ pub.prev.valid /\ pub.prev.pc = "done"
     /\ ~pub.prev.dryRun)
    => \A i \in 1..Len(pub.rows) : \A j \in 1..Len(pub.prev.rows) :
          pub.rows[i] = pub.prev.rows[j]
            => /\ pub.aggregate.rows[i].canonicalKey
                    = pub.prev.aggregate.rows[j].canonicalKey
               /\ pub.aggregate.rows[i].nameId = pub.prev.aggregate.rows[j].nameId

\* the same for the rows whose key does not fall back on the clock: a provided
\* key, or a primary variant value that keeps a letter or a digit
C30_StableKeyNonEmpty ==
  (pub.pc = "done" /\ ~pub.dryRun /\ pub.prev.valid /\ pub.prev.pc = "done"
     /\ ~pub.prev.dryRun)
    => \A i \in 1..Len(pub.rows) : \A j \in 1..Len(pub.prev.rows) :
          (/\ pub.rows[i] = pub.prev.rows[j]
           /\ \/ KeyProvided(pub.rows[i])
              \/ KeyBase(pub.rows[i]) # <<>>)
            => /\ pub.aggregate.rows[i].canonicalKey
                    = pub.prev.aggregate.rows[j].canonicalKey
               /\ pub.aggregate.rows[i].nameId = pub.prev.aggregate.rows[j].nameId


(***************************************************************************)
(* Properties of ensureName (Spec)                                         *)
(***************************************************************************)
\* no two names of a table share a canonical key
UniqueKeys(ns) == \A a \in ns : \A b \in ns : a.canonical_key = b.canonical_key => a = b

\* every name of ns is in ms with the same id and the same key
KeepsNames(ns, ms) ==
  \A n \in ns : \E k \in ms : k.id = n.id /\ k.canonical_key = n.canonical_key

\* the step of the pipeline that runs ensureName for the row at hand
EnsureStep == pub.pc = "ensure" /\ pub'.pc = "variants"

\* C31: ensureName is insert-or-fetch: when a name with the key exists it
\* returns that name's id and creates no row, otherwise it creates exactly one
\* name with the key and returns its id; at most one name has any canonical
\* key, in storage and in the open transaction's view; the names stored keep
\* their ids.
C31_InsertOrFetch ==
  /\ [](UniqueKeys(names) /\ UniqueKeys(tx.names))
  /\ [][KeepsNames(names, names')]_vars
  /\ [][EnsureStep =>
          /\ KeepsNames(tx.names, tx'.names)
          /\ \E k \in tx'.names : k.id = pub'.nameId /\ k.canonical_key = pub'.key
          /\ IF \E n \in tx.names : n.canonical_key = pub'.key
               THEN /\ Cardinality(tx'.names) = Cardinality(tx.names)
                    /\ \E n \in tx.names : n.canonical_key = pub'.key /\ n.id = pub'.nameId
               ELSE /\ Cardinality(tx'.names) = Cardinality(tx.names) + 1
                    /\ \A n \in tx.names : n.id # pub'.nameId]_vars

\* a call that fetched a stored name for one row and created a name for
\* another has committed
C31_Witness ==
  /\ pub.pc = "done" /\ ~pub.dryRun
  /\ Len(pub.aggregate.rows) >= 2
  /\ \E i \in 1..Len(pub.aggregate.rows) : \E j \in 1..Len(pub.aggregate.rows) :
        /\ \E n \in pub.pre.names : n.id = pub.aggregate.rows[i].nameId
        /\ \A n \in pub.pre.names : n.id # pub.aggregate.rows[j].nameId
        /\ \E n \in names : n.id = pub.aggregate.rows[j].nameId


(***************************************************************************)
(* Properties of the language cache with calls in flight (SpecReaders)     *)
(***************************************************************************)
\* C32: a getLangMap call made while a reload of the mapping triggered by
\* expiry is in progress is served the previous snapshot, and neither waits
\* for a storage load nor starts one.
C32_ServedPreviousSnapshot ==
  \A p \in Callers :
     readers.call[p].during
       => /\ readers.call[p].pc = "done"
          /\ ~readers.call[p].loaded
          /\ readers.call[p].out = [ok |-> TRUE, map |-> readers.call[p].snapshot[1]]



\* a call of clearLanguageCache, and of configureLanguageCache
ClearStep == readers'.barrier # readers.barrier /\ readers'.cleared /\ readers'.seq # readers.seq

ConfigureStep == readers'.cfgs # readers.cfgs

\* clearLanguageCache leaves the cache empty, and configureLanguageCache sets
\* the TTL to a positive number it is given, leaves it as it is otherwise, and
\* leaves the cached snapshot and its expiry as they are
ClearAndConfigure ==
  /\ [][ClearStep => langCache'.cache = None /\ langCache'.cacheExp = 0]_vars
  /\ [][ConfigureStep =>
          /\ langCache'.ttl = IF readers'.cfg # None /\ readers'.cfg[1] > 0
                                THEN readers'.cfg[1] ELSE langCache.ttl
          /\ langCache'.cache = langCache.cache
          /\ langCache'.cacheExp = langCache.cacheExp]_vars

\* C33: after clearLanguageCache the next getLangMap call reloads from
\* storage whatever TTL remained; configureLanguageCache changes the TTL only
\* when given a positive number and leaves the expiry of the cached snapshot
\* as it is.
C33_ClearAndConfigure ==
  /\ ClearAndConfigure
  /\ [](\A p \in Callers : readers.call[p].afterClear => readers.call[p].loaded)

\* a getLangMap call that follows clearLanguageCache and does not reload is
\* served a mapping whose load was begun before clearLanguageCache was called
ServedAfterClearIsOlderLoad ==
  [][\A p \in Callers :
       (/\ readers'.seq # readers.seq
        /\ readers'.call[p].began = readers'.seq
        /\ readers'.call[p].afterClear
        /\ ~readers'.call[p].loaded)
         => langCache.cache # None /\ readers.cacheFrom < readers.barrier]_vars

\* C39: once clearLanguageCache or a refreshLangMap has returned, the cache
\* never holds a mapping whose load was started before that call.
C39_NoOlderLoadAfterInvalidation ==
  langCache.cache # None => readers.cacheFrom >= readers.barrier


(***************************************************************************)
(* Properties of the audit record (SpecBulk)                               *)
(***************************************************************************)
\* the handler answers a request whose body passed validation
RespondStep == http.pc = "validated" /\ http'.pc = "responded"

\* C34: an audit record is written only for a bulk publish that committed, was
\* no dry run and came from a caller with a numeric user id; a dry run and a
\* failed publish write none; a failure to write the audit record leaves the
\* committed publish as it is and the response is the summary, not an error.
C34_AuditOnlyForRealPublish ==
  /\ [][http'.audits # http.audits =>
          /\ RespondStep
          /\ http'.audits = http.audits + 1
          /\ pub.pc = "done" /\ pub.last.pc = "done"
          /\ \A i \in 1..Len(pub.aggregate.rows) :
                \E n \in names : /\ n.id = pub.aggregate.rows[i].nameId
                                 /\ n.canonical_key = pub.aggregate.rows[i].canonicalKey
          /\ ~pub.dryRun /\ ~pub.aggregate.dryRun
          /\ http.user # None /\ IsInteger(ToNumber(http.user[1]))]_vars
  /\ [][RespondStep =>
          /\ <<names, variants, meanings, nameSeq>>' = <<names, variants, meanings, nameSeq>>
          /\ (pub.pc = "done" =>
                /\ http'.status = 200
                /\ http'.summary = BulkSummary(pub.aggregate))
          /\ (pub.pc = "failed" \/ pub.dryRun => http'.audit = "none")]_vars

\* a real publish by user 1 was answered with its summary although the audit
\* record could not be written, and an earlier one had its record written
C34_Witness ==
  /\ http.pc = "responded" /\ http.status = 200
  /\ http.audit = "failed"
  /\ http.audits = 1
  /\ http.summary.inserted > 0
  /\ ~pub.dryRun /\ pub.pc = "done"
  /\ variants # http.pre.variants


(***************************************************************************)
(* Properties of chained searches among publishes (SpecCore)               *)
(***************************************************************************)
\* C35: over a sequence of search calls chained by nextCursor the ids of the
\* names returned are strictly increasing, so that no name is returned twice,
\* also when bulkPublish calls commit between the page requests.
C35_ChainStrictlyIncreasing ==
  chain.active =>
    \A i \in 1..Len(chain.ids) : \A j \in 1..Len(chain.ids) :
       i < j => chain.ids[i] < chain.ids[j]

\* the ids never decrease over the sequence: a name is repeated only in
\* adjacent results
ChainNeverDecreases ==
  chain.active =>
    \A i \in 1..Len(chain.ids) : \A j \in 1..Len(chain.ids) :
       i < j => chain.ids[i] <= chain.ids[j]


(***************************************************************************)
(* Properties of concurrent bulk publish calls, continued (SpecRace)       *)
(***************************************************************************)
\* C36: of two concurrent bulkPublish calls with the same canonical keys in
\* different row orders neither fails because of the other: in no reachable
\* state does each transaction wait for a key the other one holds.
C36_NoMutualWait ==
  /\ ~(WaitsForOther(1) /\ WaitsForOther(2))
  /\ \A p \in Callers : race[p].cause # "deadlock"

\* rows i of caller 1 and j of caller 2 are the same single variant for the
\* same canonical key
SameVariant(i, j) ==
  /\ CanonicalKeyOf(race[1].rows[i], now) = CanonicalKeyOf(race[2].rows[j], now)
  /\ Len(race[1].rows[i].variants) = 1
  /\ race[1].rows[i].variants = race[2].rows[j].variants

\* the stored variants of a name with the (locale, value) of a submitted item
StoredVariants(nameId, item) ==
  {r \in variants : /\ r.name_id = nameId
                    /\ r.language_id = LangIdOf(item.lang)
                    /\ r.variant_name = item.value}

\* C37: when two concurrent non-dry-run bulkPublish calls submit the same new
\* (name, locale, value) variant and both commit, the variant is stored once,
\* one call counts it as inserted and the other as a duplicate.
C37_SameVariantOnce ==
  BothDone =>
    \A i \in 1..Len(race[1].rows) : \A j \in 1..Len(race[2].rows) :
       SameVariant(i, j) =>
         LET a == race[1].aggregate.rows[i]
             b == race[2].aggregate.rows[j]
         IN  /\ a.nameId = b.nameId
             /\ Cardinality(StoredVariants(a.nameId, race[1].rows[i].variants[1])) = 1
             /\ a.variants.inserted + b.variants.inserted = 1

\* both calls committed the same variant, one of them having begun while the
\* transaction of the other was open
C37_Witness ==
  /\ BothDone
  /\ \E p \in Callers : race[p].overlapped
  /\ \E i \in 1..Len(race[1].rows) : \E j \in 1..Len(race[2].rows) :
        /\ SameVariant(i, j)
        /\ race[1].aggregate.rows[i].variants.inserted
             + race[2].aggregate.rows[j].variants.inserted = 1


(***************************************************************************)
(* Properties of rows of one batch with the same canonical key (Spec)      *)
(***************************************************************************)
\* rows i < j of the call resolve to the same canonical key and both submit
\* the pair, which the name did not have when row i was reached
SharedNewPair(i, j, pair) ==
  /\ i < j
  /\ pub.aggregate.rows[i].canonicalKey = pub.aggregate.rows[j].canonicalKey
  /\ pair \in SubmittedPairs(pub.rows[i].variants)
  /\ pair \in SubmittedPairs(pub.rows[j].variants)
  /\ pair \notin pub.before[i].variants

\* the variants a row counted as inserted: the pairs it submits that the
\* name did not have when the row was reached
CountsNewPairs(i) ==
  pub.aggregate.rows[i].variants.inserted
    = Cardinality(SubmittedPairs(pub.rows[i].variants) \ pub.before[i].variants)

\* C38: when two rows of one batch resolve to the same canonical key and
\* submit the same (locale, value) variant not yet stored, the earlier row
\* counts it as inserted and the later one as a duplicate; over the call
\* variantsInserted is the number of new triples persisted and
\* variantsInserted + variantsDuplicates the number of variants submitted.
C38_SameVariantInBatch ==
  (pub.pc = "done" /\ ~pub.dryRun) =>
    /\ \A i \in 1..Len(pub.rows) : \A j \in 1..Len(pub.rows) :
          \A pair \in SubmittedPairs(pub.rows[i].variants) :
             SharedNewPair(i, j, pair)
               => /\ pub.aggregate.rows[i].nameId = pub.aggregate.rows[j].nameId
                  /\ CountsNewPairs(i)
                  /\ CountsNewPairs(j)
                  /\ pair \in pub.before[j].variants
                  /\ pair \in DupPairs(pub.aggregate.rows[j].variants.duplicates)
    /\ pub.aggregate.totals.variantsInserted
         = Cardinality(variants) - Cardinality(pub.pre.variants)
    /\ pub.aggregate.totals.variantsInserted + pub.aggregate.totals.variantsDuplicates
         = SumLen(pub.rows, "variants")

\* a committed call whose second row repeated a new variant of its first row
\* and added another one
C38_Witness ==
  /\ pub.pc = "done" /\ ~pub.dryRun
  /\ Len(pub.rows) = 2
  /\ \E pair \in SubmittedPairs(pub.rows[1].variants) : SharedNewPair(1, 2, pair)
  /\ pub.aggregate.rows[1].variants.inserted = 1
  /\ pub.aggregate.rows[2].variants.inserted = 1
  /\ pub.aggregate.totals.variantsInserted = 2
  /\ pub.aggregate.totals.variantsDuplicates = 1


(***************************************************************************)
(* Properties of withTransaction (SpecTx)                                  *)
(***************************************************************************)
\* how often a statement was sent on the connection
Sent(c, stmt) == Cardinality({i \in 1..Len(c.log) : c.log[i] = stmt})

\* the call is over, having had a connection
Over(c) == c.pc \in {"returned", "thrown"} /\ c.outcome # "connect"

\* C40: withTransaction sends BEGIN, then exactly one of a COMMIT that
\* succeeds (sent only when the callback returned) and ROLLBACK (sent when
\* BEGIN, the callback or COMMIT threw); it releases the connection once on
\* every path, also when ROLLBACK fails, and throws the error it caught, not
\* that of ROLLBACK.
C40_WithTransaction ==
  \A p \in Callers :
     LET c == pool.call[p]
     IN  /\ c.log # <<>> => c.log[1] = "BEGIN"
         /\ Sent(c, "BEGIN") <= 1 /\ Sent(c, "COMMIT") <= 1 /\ Sent(c, "ROLLBACK") <= 1
         /\ Sent(c, "COMMIT") = 1 => c.fn = "returned"
         /\ Sent(c, "ROLLBACK") = 1 => c.e \in {"begin", "fn", "commit"}
         /\ c.releases <= 1
         /\ c.releases = 1 => c.pc \in {"returned", "thrown"}
         /\ Over(c) =>
              /\ Sent(c, "BEGIN") = 1
              /\ c.committed # (Sent(c, "ROLLBACK") = 1)
              /\ c.releases = 1
              /\ c.pc = "returned" <=> c.committed
              /\ c.pc = "returned" => c.outcome = "out"
              /\ c.pc = "thrown" => c.outcome = c.e /\ c.e # "none"

\* every connection is back in the pool when no call holds one
PoolRestored ==
  (\A p \in Callers : ~(pool.call[p].pc \in {"begin", "fn", "commit", "rollback", "release"}))
    => pool.free = PoolSize

\* a call ended with the error of COMMIT although its ROLLBACK failed too,
\* beside a call that returned
C40_Witness ==
  \E p \in Callers :
     /\ pool.call[p].pc = "thrown"
     /\ pool.call[p].log = <<"BEGIN", "COMMIT", "ROLLBACK">>
     /\ pool.call[p].rollbackError = "rollback"
     /\ pool.call[p].outcome = "commit"
     /\ pool.call[p].releases = 1
     /\ pool.call[Other(p)].pc = "returned"

=============================================================================
